---- MODULE Spec2Model ----
(***************************************************************************)
(* Format identification of pchchv/compressor: the rewindReader, the       *)
(* formats' Match methods and Identify (formats.go and the format files),  *)
(* the CompressedArchive composite (formats.go) and the ArchiveFS adapter  *)
(* over an archive's entries (file_system.go); further the entry loops of  *)
(* Archive, ArchiveAsync, Insert and Extract of tar and zip, the skipList, *)
(* RegisterFormat, FileSystem, dirFile.ReadDir, the calls of several       *)
(* goroutines on an ArchiveFS with a Stream, the file handles of           *)
(* ArchiveFS.Open, the Files of the zip and 7z Extract, the loop of        *)
(* Tar.Extract, the writer of CompressedArchive.Archive and the offset of  *)
(* Tar.Insert.                                                             *)
(*                                                                         *)
(* Bytes are the naturals 0..255, byte slices and strings are sequences of *)
(* bytes (a string is the sequence of its ASCII codes).  An io.Reader is   *)
(* the record of its fields; its Read is an operator that returns the new  *)
(* reader state, the bytes delivered and the error.                        *)
(***************************************************************************)
EXTENDS Naturals, Integers, Sequences, FiniteSets, TLC

VARIABLES
    rr,       \* the rewindReader under use (with its underlying source)
    hist,     \* what the caller of the rewindReader has observed
    id,       \* the Identify call: its locals, its position and its results
    afs,      \* an ArchiveFS value, the archive under it and the latest call on it
    ca,       \* a CompressedArchive value and the latest call on it
    wk,       \* a running Archive, ArchiveAsync, Insert or Extract of tar or zip
    sl,       \* a skipList and the latest add on it
    reg,      \* the registry of formats and the latest RegisterFormat call
    fsy,      \* a FileSystem call
    par,      \* calls that run at the same time on one stream-backed ArchiveFS
    df,       \* a dirFile and the ReadDir calls made on it
    opn,      \* an Open call on a path-backed ArchiveFS and the file handles it opened
    zx,       \* an Extract of zip or 7z and the Files its handler kept
    tx,       \* a Tar.Extract over an archive whose reader may fail
    arc,      \* a CompressedArchive.Archive call and the writers it opened
    ins       \* a Tar.Insert call and the offsets it computes

\* the variables of the runs of archives, walks and registrations
\* the variables of the calls on files, writers and offsets
late == <<opn, zx, tx, arc, ins>>

more == <<wk, sl, reg, fsy, par, df, late>>

vars == <<rr, hist, id, afs, ca, more>>

----------------------------------------------------------------------------
\* Bounds of the model.

\* longest source of the rewindReader runs
MaxSrcLen == 4
\* largest len(p) handed to rewindReader.Read
MaxRead == 3
\* rewind() calls counted in a run of the rewindReader
MaxCycles == 10
\* largest number of bytes a seekable stream was advanced before Identify
MaxStart == 1
\* bytes that follow a magic header in the streams handed to Identify
MaxTail == 1

----------------------------------------------------------------------------
\* Errors (error values are compared by identity, as errors.Is does for these).

Nil == "nil"
EOF == "EOF"
ErrUnexpectedEOF == "unexpected EOF"
\* an I/O failure of the underlying stream
ErrIO == "io failure"
\* a decoder rejecting the bytes it was given (zlib.ErrHeader, tar.ErrHeader)
ErrHeader == "invalid header"

Min(a, b) == IF a < b THEN a ELSE b

\* s[lo+1 .. hi] in Go's slice notation s[lo:hi]
Slice(s, lo, hi) == SubSeq(s, lo + 1, hi)

\* Go's s[lo:]
From(s, lo) == SubSeq(s, lo + 1, Len(s))

----------------------------------------------------------------------------
\* The underlying stream: an io.Reader, possibly an io.Seeker.
\*   data    the bytes of the stream from its very start
\*   pos     how many of them have been consumed
\*   start   pos when the stream was handed over
\*   seek    "no": not an io.Seeker; "yes": Seek succeeds; "fails": an
\*           io.Seeker whose Seek returns an error (a pipe opened as a file)
\*   fail    the error met once data is used up: EOF or ErrIO
\*   eager   TRUE when the stream returns that error together with its last
\*           bytes, FALSE when it returns it on the following Read
\*   ioErr   TRUE once a Read of the stream has returned ErrIO

\* Read of a p with len(p) = m; the stream delivers at most c bytes per call.
SrcRead(src, m, c) ==
    LET avail == Len(src.data) - src.pos
        n     == Min(Min(m, avail), c)
        err   == IF avail = 0 \/ (src.eager /\ n > 0 /\ src.pos + n = Len(src.data))
                 THEN src.fail ELSE Nil
    IN  [src   |-> [src EXCEPT !.pos = src.pos + n,
                               !.ioErr = src.ioErr \/ err = ErrIO],
         bytes |-> Slice(src.data, src.pos, src.pos + n),
         err   |-> err]

----------------------------------------------------------------------------
\* rewindReader.  buf is the accumulation buffer; bufReader is "nil" or the
\* bytes.Reader made by rewind(): i its read index, len the length of the
\* slice it was made over (a snapshot: later writes to buf do not grow it).

NoReader == [set |-> FALSE, i |-> 0, len |-> 0]

newRewindReader(src) == [src |-> src, buf |-> <<>>, bufReader |-> NoReader]

\* bytes.Reader.Read: EOF once the slice is used up, else a copy
BytesReaderRead(br, buf, k) ==
    IF br.i >= br.len
    THEN [br |-> br, bytes |-> <<>>, err |-> EOF]
    ELSE LET n == Min(k, br.len - br.i)
         IN  [br |-> [br EXCEPT !.i = br.i + n],
              bytes |-> Slice(buf, br.i, br.i + n), err |-> Nil]

\* Read that writes to buf all it returns, the bytes served from the
\* bufReader included
ReadRecordsServed(r, k, c) ==
    LET fromBuf == IF r.bufReader.set
                   THEN BytesReaderRead(r.bufReader, r.buf, k)
                   ELSE [br |-> r.bufReader, bytes |-> <<>>, err |-> Nil]
        br1     == IF r.bufReader.set /\ fromBuf.err = EOF
                   THEN NoReader ELSE fromBuf.br
        n       == Len(fromBuf.bytes)
    IN  IF r.bufReader.set /\ n = k
        THEN [rr |-> [r EXCEPT !.bufReader = br1, !.buf = @ \o fromBuf.bytes],
              bytes |-> fromBuf.bytes, err |-> Nil]
        ELSE LET s == SrcRead(r.src, k - n, c)
             IN  [rr    |-> [src |-> s.src,
                             buf |-> r.buf \o fromBuf.bytes \o s.bytes,
                             bufReader |-> br1],
                  bytes |-> fromBuf.bytes \o s.bytes,
                  err   |-> s.err]

\* rewindReader.Read(p) with len(p) = k over a stream that delivers at most
\* c bytes per call
Read(r, k, c) ==
    LET fromBuf == IF r.bufReader.set
                   THEN BytesReaderRead(r.bufReader, r.buf, k)
                   ELSE [br |-> r.bufReader, bytes |-> <<>>, err |-> Nil]
        br1     == IF r.bufReader.set /\ fromBuf.err = EOF
                   THEN NoReader ELSE fromBuf.br
        n       == Len(fromBuf.bytes)
    IN  IF r.bufReader.set /\ n = k
        THEN [rr |-> [r EXCEPT !.bufReader = br1],
              bytes |-> fromBuf.bytes, err |-> Nil]
        ELSE LET s == SrcRead(r.src, k - n, c)
             IN  [rr    |-> [src |-> s.src, buf |-> r.buf \o s.bytes,
                             bufReader |-> br1],
                  bytes |-> fromBuf.bytes \o s.bytes,
                  err   |-> s.err]

\* rewind() that makes the new bytes.Reader but leaves it at the old index
rewindKeepsIndex(r) ==
    [r EXCEPT !.bufReader = [set |-> TRUE,
                             i |-> IF r.bufReader.set THEN r.bufReader.i ELSE Len(r.buf),
                             len |-> Len(r.buf)]]

rewind(r) == [r EXCEPT !.bufReader = [set |-> TRUE, i |-> 0, len |-> Len(r.buf)]]

\* reader() that hands the stream back without the buffered bytes
readerDropsBuf(r) ==
    IF r.src.seek = "yes"
    THEN From(r.src.data, 0)
    ELSE From(r.src.data, r.src.pos)

\* rewindReader.reader(): the bytes the returned reader yields when it is
\* read to its end.  A successful Seek(0, io.SeekStart) puts the stream at
\* its very start; otherwise io.MultiReader yields buf, then the stream.
reader(r) ==
    IF r.src.seek = "yes"
    THEN From(r.src.data, 0)
    ELSE r.buf \o From(r.src.data, r.src.pos)

\* the stream as the rewindReader leaves it behind reader()
readerSrc(r) ==
    IF r.src.seek = "yes" THEN [r.src EXCEPT !.pos = 0] ELSE r.src

----------------------------------------------------------------------------
\* A run of a rewindReader on its own: Read, rewind and reader() in any order
\* (formats_test.go, TestRewindReader).

Ramp(n) == [i \in 1..n |-> i]

Sources ==
    { [data |-> d, pos |-> p, start |-> p, seek |-> s, fail |-> f, eager |-> e,
       ioErr |-> FALSE] :
        d \in {Ramp(n) : n \in 0..MaxSrcLen}, p \in 0..MaxStart,
        s \in {"no", "yes", "fails"}, f \in {EOF, ErrIO}, e \in BOOLEAN }

NoHist == [served |-> <<>>, cycles |-> 0, reads |-> 0, k |-> 0, c |-> 0,
           n |-> 0, err |-> Nil, final |-> FALSE, out |-> <<>>]

NoId == [pc |-> "off"]

\* no ArchiveFS is in use
NoArchiveFS == [on |-> FALSE]
NoCompressedArchive == [on |-> FALSE]
\* a variable of a run that is not under way
Idle == [on |-> FALSE]
\* none of the runs of archives, walks and registrations is under way
NoLate ==
    /\ opn = Idle /\ zx = Idle /\ tx = Idle /\ arc = Idle /\ ins = Idle

NoMore ==
    /\ wk = Idle /\ sl = Idle /\ reg = Idle
    /\ fsy = Idle /\ par = Idle /\ df = Idle
    /\ NoLate

InitRewind ==
    /\ \E s \in Sources : s.pos <= Len(s.data) /\ rr = newRewindReader(s)
    /\ hist = NoHist
    /\ id = NoId
    /\ afs = NoArchiveFS
    /\ ca = NoCompressedArchive
    /\ NoMore

\* r.Read(p): served collects what Read has returned since the last rewind,
\* reads counts the Read calls since then; k, c, n and err describe the call
DoRead ==
    /\ id.pc = "off"
    /\ ~hist.final
    /\ \E k \in 0..MaxRead, c \in 1..MaxRead :
         LET r == Read(rr, k, c)
         IN  /\ rr' = r.rr
             /\ hist' = [hist EXCEPT !.served = @ \o r.bytes,
                                     !.reads = Min(@ + 1, 2), !.k = k, !.c = c,
                                     !.n = Len(r.bytes), !.err = r.err]
    /\ UNCHANGED <<id, afs, ca, more>>

\* r.rewind()
DoRewind ==
    /\ id.pc = "off"
    /\ ~hist.final
    /\ hist.cycles < MaxCycles
    /\ rr' = rewind(rr)
    /\ hist' = [hist EXCEPT !.served = <<>>, !.cycles = @ + 1, !.reads = 0,
                            !.k = 0, !.c = 0, !.n = 0, !.err = Nil]
    /\ UNCHANGED <<id, afs, ca, more>>

\* r.reader(), read to its end
DoReader ==
    /\ id.pc = "off"
    /\ ~hist.final
    /\ hist' = [hist EXCEPT !.final = TRUE, !.out = reader(rr)]
    /\ rr' = [rr EXCEPT !.src = readerSrc(rr)]
    /\ UNCHANGED <<id, afs, ca, more>>

NextRewind == DoRead \/ DoRewind \/ DoReader

SpecRewind == InitRewind /\ [][NextRewind]_vars

\* C1: for a source handed over at its start, the reader returned by
\* reader() yields the whole source, each byte once and in order, after any
\* sequence of Read and rewind calls, whether the source is seekable or not.
ReaderYieldsWholeSource ==
    (hist.final /\ rr.src.start = 0) => hist.out = rr.src.data

\* C1 witness: a non-seekable source finalized after a rewind, with part of
\* it buffered and part of it still unread.
ReaderAtBoundary ==
    /\ hist.final /\ rr.src.start = 0 /\ rr.src.seek = "no"
    /\ hist.cycles >= 1
    /\ Len(rr.buf) >= 2 /\ rr.src.pos < Len(rr.src.data)

\* C2: what Read returns after a rewind() is always the source from its first
\* byte on: the bytes served since the rewind are a prefix of the source, and
\* one Read of k bytes right after the rewind (the source delivering what it
\* is asked for) returns the first k bytes, whatever went before.
RewindServesPrefix ==
    (hist.cycles >= 1 /\ ~hist.final) =>
        /\ hist.served =
             Slice(rr.src.data, rr.src.start, rr.src.start + Len(hist.served))
        /\ (hist.reads = 1 /\ hist.c >= hist.k) =>
             hist.n = Min(hist.k, Len(rr.src.data) - rr.src.start)

\* C2 witness: the MaxCycles-th rewind followed by a Read of k >= 2 bytes,
\* after earlier reads had gone further into the source than k.
TenthRewindRead ==
    /\ hist.cycles = MaxCycles /\ hist.reads = 1 /\ ~hist.final
    /\ hist.k >= 2 /\ hist.n = hist.k
    /\ rr.src.pos - rr.src.start > hist.k


----------------------------------------------------------------------------
\* The formats: their names (Name()) and magic numbers, as byte sequences.

\* ".br"
BrotliName == <<46, 98, 114>>
\* ".bz2"
Bz2Name == <<46, 98, 122, 50>>
\* ".gz"
GzName == <<46, 103, 122>>
\* ".lz4"
Lz4Name == <<46, 108, 122, 52>>
\* ".sz"
SzName == <<46, 115, 122>>
\* ".xz"
XzName == <<46, 120, 122>>
\* ".zz"
ZlibName == <<46, 122, 122>>
\* ".zst"
ZstdName == <<46, 122, 115, 116>>
\* ".rar"
RarName == <<46, 114, 97, 114>>
\* ".7z"
SevenZipName == <<46, 55, 122>>
\* ".tar"
TarName == <<46, 116, 97, 114>>
\* ".zip"
ZipName == <<46, 122, 105, 112>>

\* "BZh"
bzip2Header == <<66, 90, 104>>
gzHeader == <<31, 139>>
lz4Header == <<4, 34, 77, 24>>
snappyHeader == <<255, 6, 0, 0, 115, 78, 97, 80, 112, 89>>
xzHeader == <<253, 55, 122, 88, 90, 0>>
ZlibHeader == <<120>>
zstdHeader == <<40, 181, 47, 253>>
\* "7z\xBC\xAF\x27\x1C"
sevenZipHeader == <<55, 122, 188, 175, 39, 28>>
\* "PK\x03\x04"
zipHeader == <<80, 75, 3, 4>>
\* "Rar!\x1a\x07\x00"
rarHeaderV1_5 == <<82, 97, 114, 33, 26, 7, 0>>
\* "Rar!\x1a\x07\x01\x00"
rarHeaderV5_0 == <<82, 97, 114, 33, 26, 7, 1, 0>>

\* The registry after every init() has run: the keys of the formats map
\* (the lowercased names without their dots).
formats == {"br", "bz2", "gz", "lz4", "sz", "xz", "zz", "zst",
            "rar", "7z", "tar", "zip"}

\* no format: a nil Compression, Archival or Format
NoFormat == "nil"

\* format.Name() of the format registered under key f
Name(f) ==
    CASE f = "br"  -> BrotliName
      [] f = "bz2" -> Bz2Name
      [] f = "gz"  -> GzName
      [] f = "lz4" -> Lz4Name
      [] f = "sz"  -> SzName
      [] f = "xz"  -> XzName
      [] f = "zz"  -> ZlibName
      [] f = "zst" -> ZstdName
      [] f = "rar" -> RarName
      [] f = "7z"  -> SevenZipName
      [] f = "tar" -> TarName
      [] f = "zip" -> ZipName

\* format.(Compression): the formats with OpenWriter and OpenReader
IsCompression(f) == f \in {"br", "bz2", "gz", "lz4", "sz", "xz", "zz", "zst"}

\* format.(Archival): the formats with Archive
IsArchival(f) == f \in {"rar", "7z", "tar", "zip"}

----------------------------------------------------------------------------
\* strings and bytes

\* strings.ToLower on ASCII
ToLower(str) ==
    [i \in 1..Len(str) |-> IF str[i] \in 65..90 THEN str[i] + 32 ELSE str[i]]

\* strings.Contains
Contains(str, sub) ==
    \E i \in 0..(Len(str) - Len(sub)) : Slice(str, i, i + Len(sub)) = sub

\* make([]byte, n)
Zeros(n) == [i \in 1..n |-> 0]

----------------------------------------------------------------------------
\* Readers over the rewindReader.  A stream handed to Match is
\*   [kind |-> "raw", rr]             the rewindReader itself, or
\*   [kind |-> "dec", comp, hdr, rr]  the reader comp.OpenReader made over it;
\*                                    hdr = "ok" once the decoder has read and
\*                                    accepted the head of the compressed data.
\* The codecs stand for any framing of that shape: the format's magic number,
\* checked by the decoder, and then its payload, handed on as it is read.
\* The stream under the rewindReader delivers what it is asked for.

RawStream(r) == [kind |-> "raw", comp |-> NoFormat, hdr |-> "ok", rr |-> r]

\* io.ReadFull(r, buf) with len(buf) = k on the rewindReader; acc is buf[:n]
RECURSIVE ReadFullRR(_, _, _)
ReadFullRR(r, k, acc) ==
    IF Len(acc) >= k
    THEN [rr |-> r, bytes |-> acc, err |-> Nil]
    ELSE LET After(rd) ==
                 LET all == acc \o rd.bytes
                 IN  IF rd.err = Nil
                     THEN ReadFullRR(rd.rr, k, all)
                     ELSE [rr |-> rd.rr, bytes |-> all,
                           err |-> IF Len(all) >= k THEN Nil
                                   ELSE IF Len(all) > 0 /\ rd.err = EOF
                                        THEN ErrUnexpectedEOF ELSE rd.err]
         IN  After(Read(r, k - Len(acc), k - Len(acc)))

\* the magic number a decoder looks for (brotli has none)
Magic(f) ==
    CASE f = "bz2" -> bzip2Header
      [] f = "gz"  -> gzHeader
      [] f = "lz4" -> lz4Header
      [] f = "sz"  -> snappyHeader
      [] f = "xz"  -> xzHeader
      [] f = "zst" -> zstdHeader
      [] OTHER     -> <<>>

\* zlib.NewReader(r): reads the two header bytes CMF and FLG at once and
\* checks them; a preset dictionary (FLG bit 5) cannot be supplied
zlibCM == 8
zlibMaxWindow == 7
zlibNewReader(r) ==
    LET Header(h) ==
            LET cmf == h.bytes[1]
                flg == h.bytes[2]
            IN  IF h.err # Nil
                THEN [rr |-> h.rr,
                      err |-> IF h.err = EOF THEN ErrUnexpectedEOF ELSE h.err]
                ELSE IF \/ cmf % 16 # zlibCM
                        \/ cmf \div 16 > zlibMaxWindow
                        \/ (cmf * 256 + flg) % 31 # 0
                        \/ (flg \div 32) % 2 = 1
                     THEN [rr |-> h.rr, err |-> ErrHeader]
                     ELSE [rr |-> h.rr, err |-> Nil]
    IN  Header(ReadFullRR(r, 2, <<>>))

\* Zlib.OpenReader
ZlibOpenReader(r) ==
    LET Opened(z) ==
            [s |-> [kind |-> "dec", comp |-> "zz", hdr |-> "ok", rr |-> z.rr],
             err |-> z.err]
    IN  Opened(zlibNewReader(r))

\* Brotli, Xz and Zstd OpenReader: the decoder is made without reading
LazyOpenReader(f, r) ==
    [s |-> [kind |-> "dec", comp |-> f, hdr |-> "todo", rr |-> r], err |-> Nil]

\* OpenReader of Gz, Bz2, Lz4 and Sz
OtherOpenReader(f, r) == LazyOpenReader(f, r)

\* comp.OpenReader(stream)
OpenReader(f, r) ==
    CASE f = "zz" -> ZlibOpenReader(r)
      [] f \in {"br", "xz", "zst"} -> LazyOpenReader(f, r)
      [] OTHER -> OtherOpenReader(f, r)

\* Read(p), len(p) = k, of a decompressing reader
DecRead(s, k) ==
    LET Payload(rd) ==
            [s |-> [s EXCEPT !.rr = rd.rr, !.hdr = "ok"],
             bytes |-> rd.bytes, err |-> rd.err]
        Header(h) ==
            IF h.err # Nil
            THEN [s |-> [s EXCEPT !.rr = h.rr], bytes |-> <<>>, err |-> h.err]
            ELSE IF s.hdr = "todo" /\ h.bytes # Magic(s.comp)
            THEN [s |-> [s EXCEPT !.rr = h.rr], bytes |-> <<>>, err |-> ErrHeader]
            ELSE Payload(Read(h.rr, k, k))
    IN  Header(IF s.hdr = "todo"
               THEN ReadFullRR(s.rr, Len(Magic(s.comp)), <<>>)
               ELSE [rr |-> s.rr, bytes |-> <<>>, err |-> Nil])

\* stream.Read(p), len(p) = k
StreamRead(s, k) ==
    LET Raw(rd) == [s |-> [s EXCEPT !.rr = rd.rr], bytes |-> rd.bytes, err |-> rd.err]
    IN  IF s.kind = "dec" THEN DecRead(s, k) ELSE Raw(Read(s.rr, k, k))

\* io.ReadFull(stream, buf) with len(buf) = k; acc is buf[:n]
RECURSIVE ReadFull(_, _, _)
ReadFull(s, k, acc) ==
    IF Len(acc) >= k
    THEN [s |-> s, bytes |-> acc, err |-> Nil]
    ELSE LET After(rd) ==
                 LET all == acc \o rd.bytes
                 IN  IF rd.err = Nil
                     THEN ReadFull(rd.s, k, all)
                     ELSE [s |-> rd.s, bytes |-> all,
                           err |-> IF Len(all) >= k THEN Nil
                                   ELSE IF Len(all) > 0 /\ rd.err = EOF
                                        THEN ErrUnexpectedEOF ELSE rd.err]
         IN  After(StreamRead(s, k - Len(acc)))

\* readAtMost that forgives io.EOF only, not io.ErrUnexpectedEOF
readAtMostStrict(s, n) ==
    IF n <= 0
    THEN [s |-> s, buf |-> <<>>, err |-> Nil]
    ELSE LET After(rf) ==
                 LET err == IF rf.err = EOF THEN Nil ELSE rf.err
                 IN  IF err # Nil
                     THEN [s |-> rf.s, buf |-> <<>>, err |-> err]
                     ELSE [s |-> rf.s, buf |-> rf.bytes, err |-> Nil]
         IN  After(ReadFull(s, n, <<>>))

\* readAtMost that returns the whole zero-filled buffer, not buf[:nr]
readAtMostWholeBuf(s, n) ==
    IF n <= 0
    THEN [s |-> s, buf |-> <<>>, err |-> Nil]
    ELSE LET After(rf) ==
                 LET err == IF rf.err \in {EOF, ErrUnexpectedEOF} THEN Nil ELSE rf.err
                 IN  IF err # Nil
                     THEN [s |-> rf.s, buf |-> <<>>, err |-> err]
                     ELSE [s |-> rf.s, buf |-> rf.bytes \o Zeros(n - Len(rf.bytes)),
                           err |-> Nil]
         IN  After(ReadFull(s, n, <<>>))

\* readAtMost(stream, n)
readAtMost(s, n) ==
    IF n <= 0
    THEN [s |-> s, buf |-> <<>>, err |-> Nil]
    ELSE LET After(rf) ==
                 LET nr  == Len(rf.bytes)
                     buf == rf.bytes \o Zeros(n - nr)
                     err == IF rf.err \in {EOF, ErrUnexpectedEOF} THEN Nil ELSE rf.err
                 IN  IF err # Nil
                     THEN [s |-> rf.s, buf |-> <<>>, err |-> err]
                     ELSE [s |-> rf.s, buf |-> Slice(buf, 0, nr), err |-> Nil]
         IN  After(ReadFull(s, n, <<>>))


----------------------------------------------------------------------------
\* Match(filename, stream) of the formats.  The result is the MatchResult mr,
\* the error and the stream as Match leaves it.

\* the zero MatchResult
NoMatchResult == [ByName |-> FALSE, ByStream |-> FALSE]

\* mr.Matched()
Matched(mr) == mr.ByName \/ mr.ByStream

\* Match that skips the stream once the name has matched
HeaderMatchNameFirst(name, header, filename, s) ==
    LET byName == Contains(ToLower(filename), name)
        Compare(r) ==
            IF r.err # Nil
            THEN [mr |-> [ByName |-> byName, ByStream |-> FALSE], err |-> r.err, s |-> r.s]
            ELSE [mr |-> [ByName |-> byName, ByStream |-> r.buf = header],
                  err |-> Nil, s |-> r.s]
    IN  IF byName
        THEN [mr |-> [ByName |-> TRUE, ByStream |-> FALSE], err |-> Nil, s |-> s]
        ELSE Compare(readAtMost(s, Len(header)))

\* the Match shared, line for line, by the formats with one magic number:
\* the name by strings.Contains, the header by readAtMost and bytes.Equal
HeaderMatch(name, header, filename, s) ==
    LET byName == Contains(ToLower(filename), name)
        Compare(r) ==
            IF r.err # Nil
            THEN [mr |-> [ByName |-> byName, ByStream |-> FALSE], err |-> r.err, s |-> r.s]
            ELSE [mr |-> [ByName |-> byName, ByStream |-> r.buf = header],
                  err |-> Nil, s |-> r.s]
    IN  Compare(readAtMost(s, Len(header)))

Bz2Match(filename, s) == HeaderMatch(Bz2Name, bzip2Header, filename, s)
GzMatch(filename, s) == HeaderMatch(GzName, gzHeader, filename, s)
Lz4Match(filename, s) == HeaderMatch(Lz4Name, lz4Header, filename, s)
SzMatch(filename, s) == HeaderMatch(SzName, snappyHeader, filename, s)
XzMatch(filename, s) == HeaderMatch(XzName, xzHeader, filename, s)
ZlibMatch(filename, s) == HeaderMatch(ZlibName, ZlibHeader, filename, s)
ZstdMatch(filename, s) == HeaderMatch(ZstdName, zstdHeader, filename, s)
SevenZipMatch(filename, s) == HeaderMatch(SevenZipName, sevenZipHeader, filename, s)
ZipMatch(filename, s) == HeaderMatch(ZipName, zipHeader, filename, s)

\* Brotli.Match: the name only, the stream is not read
BrotliMatch(filename, s) ==
    [mr |-> [ByName |-> Contains(ToLower(filename), BrotliName), ByStream |-> FALSE],
     err |-> Nil, s |-> s]

\* Rar.Match: one read of the longer header, compared with both
RarMatch(filename, s) ==
    LET byName == Contains(ToLower(filename), RarName)
        Compare(r) ==
            LET matchedV1_5 == /\ Len(r.buf) >= Len(rarHeaderV1_5)
                               /\ rarHeaderV1_5 = Slice(r.buf, 0, Len(rarHeaderV1_5))
                matchedV5_0 == /\ Len(r.buf) >= Len(rarHeaderV5_0)
                               /\ rarHeaderV5_0 = Slice(r.buf, 0, Len(rarHeaderV5_0))
            IN  IF r.err # Nil
                THEN [mr |-> [ByName |-> byName, ByStream |-> FALSE],
                      err |-> r.err, s |-> r.s]
                ELSE [mr |-> [ByName |-> byName, ByStream |-> matchedV1_5 \/ matchedV5_0],
                      err |-> Nil, s |-> r.s]
    IN  Compare(readAtMost(s, Len(rarHeaderV5_0)))

\* archive/tar: the size of a block, and where the checksum field lies in it
TarBlockSize == 512
TarChksumOff == 148
TarChksumEnd == 156

RECURSIVE SumBytes(_, _, _)
SumBytes(b, lo, hi) ==
    IF lo > hi THEN 0
    ELSE IF lo = hi THEN b[lo]
    ELSE LET mid == (lo + hi) \div 2
         IN  SumBytes(b, lo, mid) + SumBytes(b, mid + 1, hi)

\* bytes.Trim(b, " \x00")
RECURSIVE TrimSpaceNul(_)
TrimSpaceNul(b) ==
    IF b = <<>> THEN b
    ELSE IF b[1] \in {0, 32} THEN TrimSpaceNul(Tail(b))
    ELSE IF b[Len(b)] \in {0, 32} THEN TrimSpaceNul(SubSeq(b, 1, Len(b) - 1))
    ELSE b

\* the C string of b: b up to its first NUL
RECURSIVE CString(_)
CString(b) ==
    IF b = <<>> \/ b[1] = 0 THEN <<>> ELSE <<b[1]>> \o CString(Tail(b))

\* strconv.ParseUint(str, 8, 64); -1 when str is no octal number
RECURSIVE ParseOctalDigits(_, _)
ParseOctalDigits(str, acc) ==
    IF str = <<>> THEN acc
    ELSE IF str[1] \in 48..55 THEN ParseOctalDigits(Tail(str), acc * 8 + (str[1] - 48))
    ELSE -1

\* parser.parseOctal of the checksum field; -1 on a parse error
ParseOctal(field) ==
    LET t == TrimSpaceNul(field)
    IN  IF t = <<>> THEN 0
        ELSE IF CString(t) = <<>> THEN -1
        ELSE ParseOctalDigits(CString(t), 0)

\* block.getFormat() # FormatUnknown: the checksum field holds the unsigned
\* or the signed sum of the block's bytes, the field itself counted as spaces
TarChecksumOK(blk) ==
    LET blanked  == [i \in 1..Len(blk) |->
                        IF i > TarChksumOff /\ i <= TarChksumEnd THEN 32 ELSE blk[i]]
        unsigned == SumBytes(blanked, 1, Len(blanked))
        signed   == unsigned - 256 * Cardinality({i \in 1..Len(blanked) : blanked[i] >= 128})
        value    == ParseOctal(Slice(blk, TarChksumOff, TarChksumEnd))
    IN  value >= 0 /\ (value = unsigned \/ value = signed)

\* tar.NewReader(stream).Next(): the error it returns for the first header
TarNext(s) ==
    LET Second(b2) ==
            [s |-> b2.s,
             err |-> IF b2.err # Nil THEN b2.err
                     ELSE IF b2.bytes = Zeros(TarBlockSize) THEN EOF
                     ELSE ErrHeader]
        First(b) ==
            IF b.err # Nil
            THEN [s |-> b.s, err |-> b.err]
            ELSE IF b.bytes = Zeros(TarBlockSize)
            THEN Second(ReadFull(b.s, TarBlockSize, <<>>))
            ELSE [s |-> b.s, err |-> IF TarChecksumOK(b.bytes) THEN Nil ELSE ErrHeader]
    IN  First(ReadFull(s, TarBlockSize, <<>>))

\* Tar.Match: ByStream is whether Next returned no error; that error is dropped
TarMatch(filename, s) ==
    LET Result(nx) ==
            [mr  |-> [ByName |-> Contains(ToLower(filename), TarName),
                      ByStream |-> nx.err = Nil],
             err |-> Nil,
             s   |-> nx.s]
    IN  Result(TarNext(s))

\* format.Match(filename, stream) of the format registered under key f
Match(f, filename, s) ==
    CASE f = "br"  -> BrotliMatch(filename, s)
      [] f = "bz2" -> Bz2Match(filename, s)
      [] f = "gz"  -> GzMatch(filename, s)
      [] f = "lz4" -> Lz4Match(filename, s)
      [] f = "sz"  -> SzMatch(filename, s)
      [] f = "xz"  -> XzMatch(filename, s)
      [] f = "zz"  -> ZlibMatch(filename, s)
      [] f = "zst" -> ZstdMatch(filename, s)
      [] f = "rar" -> RarMatch(filename, s)
      [] f = "7z"  -> SevenZipMatch(filename, s)
      [] f = "tar" -> TarMatch(filename, s)
      [] f = "zip" -> ZipMatch(filename, s)

\* identifyOne without the deferred rewind(): the stream stays where the
\* probe left it
identifyOneNoRewind(f, filename, r, comp) ==
    LET Return(m) ==
            [mr |-> m.mr, err |-> IF m.err = EOF THEN Nil ELSE m.err,
             rr |-> m.s.rr]
        Opened(o) ==
            IF o.err # Nil
            THEN [mr |-> NoMatchResult, err |-> o.err, rr |-> o.s.rr]
            ELSE Return(Match(f, filename, o.s))
    IN  Opened(IF comp # NoFormat
               THEN OpenReader(comp, r)
               ELSE [s |-> RawStream(r), err |-> Nil])

\* identifyOne(format, filename, stream, comp): the deferred rewind() runs on
\* every return path
identifyOne(f, filename, r, comp) ==
    LET Return(m) ==
            [mr |-> m.mr, err |-> IF m.err = EOF THEN Nil ELSE m.err,
             rr |-> rewind(m.s.rr)]
        Opened(o) ==
            IF o.err # Nil
            THEN [mr |-> NoMatchResult, err |-> o.err, rr |-> rewind(o.s.rr)]
            ELSE Return(Match(f, filename, o.s))
    IN  Opened(IF comp # NoFormat
               THEN OpenReader(comp, r)
               ELSE [s |-> RawStream(r), err |-> Nil])


----------------------------------------------------------------------------
\* Identify(filename, stream).  id holds the call:
\*   pc           "pass1" (the loop over the compression formats), "pass2"
\*                (the loop over the archive formats), "resolve" (both loops
\*                left, reader() not yet called), "done" (returned)
\*   filename     the filename argument
\*   probed       the formats the running loop has visited
\*   compression, archival   the locals of that name
\*   format, err, out        the three results; out is what the returned
\*                           reader yields when read to its end
\*   last         the latest identifyOne call: its format, the compression it
\*                was given, its results, and whether the stream failed in it

NilFormat == [type |-> "nil", Compression |-> NoFormat, Archival |-> NoFormat]
CompressionFormat(c) == [type |-> "Compression", Compression |-> c, Archival |-> NoFormat]
ArchivalFormat(a) == [type |-> "Archival", Compression |-> NoFormat, Archival |-> a]
CompressedArchive(c, a) == [type |-> "CompressedArchive", Compression |-> c, Archival |-> a]

\* CompressedArchive.Name() (both layers set), and Name() of a single format
FormatName(fmt) ==
    CASE fmt.type = "Compression" -> Name(fmt.Compression)
      [] fmt.type = "Archival" -> Name(fmt.Archival)
      [] fmt.type = "CompressedArchive" -> Name(fmt.Archival) \o Name(fmt.Compression)

NoError == [msg |-> "nil", name |-> "", wraps |-> Nil]
\* fmt.Errorf("no formats matched")
ErrNoMatch == [msg |-> "no formats matched", name |-> "", wraps |-> Nil]
\* fmt.Errorf("matching %s: %w", name, err)
ErrMatching(name, err) == [msg |-> "matching", name |-> name, wraps |-> err]

NoProbe == [format |-> NoFormat, comp |-> NoFormat, mr |-> NoMatchResult,
            err |-> Nil, ioErr |-> FALSE]

\* the filenames handed to Identify
\* "", "a.gz", "A.TAR.GZ", "x.zz", "f.br", "a.zip", "a.txt", "doc.tar", "B.Zst"
NoFilename == <<>>
Filenames ==
    { NoFilename,
      <<97, 46, 103, 122>>,
      <<65, 46, 84, 65, 82, 46, 71, 90>>,
      <<120, 46, 122, 122>>,
      <<102, 46, 98, 114>>,
      <<97, 46, 122, 105, 112>>,
      <<97, 46, 116, 120, 116>>,
      <<100, 111, 99, 46, 116, 97, 114>>,
      <<66, 46, 90, 115, 116>> }

\* the magic numbers of the registry
Headers ==
    { bzip2Header, gzHeader, lz4Header, snappyHeader, xzHeader, ZlibHeader,
      zstdHeader, sevenZipHeader, zipHeader, rarHeaderV1_5, rarHeaderV5_0 }

\* "this is a txt content", as formats_test.go repeats it
TxtContent ==
    <<116, 104, 105, 115, 32, 105, 115, 32, 97, 32, 116, 120, 116, 32, 99, 111,
      110, 116, 101, 110, 116>>

\* a tar header block: the entry name "a", the checksum "000541", NULs
TarHeaderBlock ==
    [i \in 1..TarBlockSize |->
        CASE i = 1 -> 97
          [] i \in 149..151 -> 48
          [] i = 152 -> 53
          [] i = 153 -> 52
          [] i = 154 -> 49
          [] i = 156 -> 32
          [] OTHER -> 0]

\* the same block with a wrong checksum
TarBadBlock == [TarHeaderBlock EXCEPT ![154] = 50]

\* CMF and FLG of a zlib stream (0x78 0x9c), and a FLG that fails the check
ZlibHead == <<120, 156>>
ZlibBadHead == <<120, 0>>

\* the stream contents handed to Identify
Contents ==
    { <<>>, <<0>>, <<97>>, <<255>>, TxtContent \o TxtContent }
    \cup { h \o Zeros(t) : h \in Headers, t \in 0..MaxTail }
    \cup { SubSeq(h, 1, Len(h) - 1) : h \in Headers }
    \cup { ZlibHead, ZlibBadHead, ZlibHead \o zipHeader, ZlibHead \o <<97>>,
           zstdHeader \o zipHeader, zstdHeader \o TarHeaderBlock,
           gzHeader \o sevenZipHeader, xzHeader \o rarHeaderV5_0,
           TarHeaderBlock, TarBadBlock, Zeros(TarBlockSize) \o Zeros(TarBlockSize) }

\* Streams not at their start are seekable streams that were read before.
Stream(d, p, sk, f) ==
    [data |-> d, pos |-> p, start |-> p, seek |-> sk, fail |-> f,
     eager |-> FALSE, ioErr |-> FALSE]

Streams ==
    { Stream(d, 0, "no", EOF) : d \in Contents }
    \cup { Stream(d, p, sk, EOF) :
             d \in { <<97>>, zipHeader, ZlibHead \o zipHeader, gzHeader \o Zeros(MaxTail) },
             p \in 0..MaxStart, sk \in {"yes", "fails"} }
    \cup { Stream(d, 0, sk, ErrIO) :
             d \in { <<>>, <<97>>, gzHeader, ZlibHead, TxtContent \o TxtContent },
             sk \in {"no", "yes"} }

\* the contents that are also handed over together with a filename
NamedContents ==
    { <<>>, <<97>>, gzHeader, ZlibHead, ZlibHead \o zipHeader, zipHeader,
      zstdHeader \o TarHeaderBlock, TarHeaderBlock, xzHeader \o rarHeaderV5_0,
      TxtContent \o TxtContent }

InitIdentify ==
    /\ \E fn \in Filenames, st \in Streams :
         /\ fn # NoFilename => (st.seek = "no" /\ st.data \in NamedContents)
         /\ st.pos <= Len(st.data)
         /\ rr = newRewindReader(st)
         /\ id = [pc |-> "pass1", filename |-> fn, probed |-> {},
                  compression |-> NoFormat, archival |-> NoFormat,
                  format |-> NilFormat, err |-> NoError, out |-> <<>>,
                  last |-> NoProbe]
    /\ hist = NoHist
    /\ afs = NoArchiveFS
    /\ ca = NoCompressedArchive
    /\ NoMore

\* one identifyOne call of a loop, as the record id.last keeps
Probe(f, comp) ==
    LET Record(one) ==
            [one |-> one,
             last |-> [format |-> f, comp |-> comp, mr |-> one.mr, err |-> one.err,
                       ioErr |-> one.rr.src.ioErr]]
    IN  Record(identifyOne(f, id.filename, [rr EXCEPT !.src.ioErr = FALSE], comp))

\* return nil, rewindableStream.reader(), fmt.Errorf("matching %s: %w", name, err)
ReturnMatching(f, p) ==
    /\ rr' = [p.one.rr EXCEPT !.src = readerSrc(p.one.rr)]
    /\ id' = [id EXCEPT !.pc = "done", !.format = NilFormat,
                        !.err = ErrMatching(f, p.one.err),
                        !.out = reader(p.one.rr), !.last = p.last]

\* a first loop without the break: a match is remembered and the loop goes on
ProbeCompressionNoBreak ==
    /\ id.pc = "pass1"
    /\ \E f \in {g \in formats : IsCompression(g)} \ id.probed :
       \E p \in {Probe(f, NoFormat)} :
         LET rest == {g \in formats : IsCompression(g)} \ (id.probed \cup {f})
         IN  IF p.one.err # Nil
             THEN ReturnMatching(f, p)
             ELSE /\ rr' = p.one.rr
                  /\ id' = [id EXCEPT !.compression = IF Matched(p.one.mr) THEN f ELSE @,
                                      !.last = p.last,
                                      !.probed = IF rest = {} THEN {} ELSE @ \cup {f},
                                      !.pc = IF rest = {} THEN "pass2" ELSE @]
    /\ UNCHANGED <<hist, afs, ca, more>>

\* one iteration of the first loop: a compression format not yet visited
ProbeCompression ==
    /\ id.pc = "pass1"
    /\ \E f \in {g \in formats : IsCompression(g)} \ id.probed :
       \E p \in {Probe(f, NoFormat)} :
         LET rest == {g \in formats : IsCompression(g)} \ (id.probed \cup {f})
         IN  IF p.one.err # Nil
             THEN ReturnMatching(f, p)
             ELSE /\ rr' = p.one.rr
                  /\ id' = IF Matched(p.one.mr)
                           THEN [id EXCEPT !.compression = f, !.pc = "pass2",
                                           !.probed = {}, !.last = p.last]
                           ELSE [id EXCEPT !.last = p.last,
                                           !.probed = IF rest = {} THEN {} ELSE @ \cup {f},
                                           !.pc = IF rest = {} THEN "pass2" ELSE @]
    /\ UNCHANGED <<hist, afs, ca, more>>

\* one iteration of the second loop: an archive format not yet visited
ProbeArchival ==
    /\ id.pc = "pass2"
    /\ \E f \in {g \in formats : IsArchival(g)} \ id.probed :
       \E p \in {Probe(f, id.compression)} :
         LET rest == {g \in formats : IsArchival(g)} \ (id.probed \cup {f})
         IN  IF p.one.err # Nil
             THEN ReturnMatching(f, p)
             ELSE /\ rr' = p.one.rr
                  /\ id' = IF Matched(p.one.mr)
                           THEN [id EXCEPT !.archival = f, !.pc = "resolve",
                                           !.last = p.last]
                           ELSE [id EXCEPT !.probed = @ \cup {f}, !.last = p.last,
                                           !.pc = IF rest = {} THEN "resolve" ELSE @]
    /\ UNCHANGED <<hist, afs, ca, more>>

\* a switch whose first case does not ask that archival be nil
ResolveFormatCompressionFirst(compression, archival) ==
    CASE compression # NoFormat -> CompressionFormat(compression)
      [] compression = NoFormat /\ archival # NoFormat -> ArchivalFormat(archival)
      [] OTHER -> NilFormat

\* the switch that ends Identify
ResolveFormat(compression, archival) ==
    CASE compression # NoFormat /\ archival = NoFormat -> CompressionFormat(compression)
      [] compression = NoFormat /\ archival # NoFormat -> ArchivalFormat(archival)
      [] compression # NoFormat /\ archival # NoFormat -> CompressedArchive(compression, archival)
      [] OTHER -> NilFormat

\* an end of Identify that reads one more byte through the rewindable stream
\* after reader() has been called
ResolveReadsAfterReader ==
    /\ id.pc = "resolve"
    /\ rr' = Read([rr EXCEPT !.src = readerSrc(rr)], 1, 1).rr
    /\ LET fmt == ResolveFormat(id.compression, id.archival)
       IN  id' = [id EXCEPT !.pc = "done", !.format = fmt,
                            !.err = IF fmt = NilFormat THEN ErrNoMatch ELSE NoError,
                            !.out = reader(rr)]
    /\ UNCHANGED <<hist, afs, ca, more>>

\* bufferedStream := rewindableStream.reader() and the switch
Resolve ==
    /\ id.pc = "resolve"
    /\ rr' = [rr EXCEPT !.src = readerSrc(rr)]
    /\ LET fmt == ResolveFormat(id.compression, id.archival)
       IN  id' = [id EXCEPT !.pc = "done", !.format = fmt,
                            !.err = IF fmt = NilFormat THEN ErrNoMatch ELSE NoError,
                            !.out = reader(rr)]
    /\ UNCHANGED <<hist, afs, ca, more>>

NextIdentify == ProbeCompression \/ ProbeArchival \/ Resolve

SpecIdentify == InitIdentify /\ [][NextIdentify]_vars


----------------------------------------------------------------------------
\* What the claims speak of.

\* the bytes the stream passed to Identify had still to yield at the call
Content == From(rr.src.data, rr.src.start)

HasPrefix(d, h) == Len(d) >= Len(h) /\ SubSeq(d, 1, Len(h)) = h

\* the magic numbers of the format registered under key f
HeadersOf(f) ==
    CASE f = "bz2" -> {bzip2Header}
      [] f = "gz"  -> {gzHeader}
      [] f = "lz4" -> {lz4Header}
      [] f = "sz"  -> {snappyHeader}
      [] f = "xz"  -> {xzHeader}
      [] f = "zz"  -> {ZlibHeader}
      [] f = "zst" -> {zstdHeader}
      [] f = "rar" -> {rarHeaderV1_5, rarHeaderV5_0}
      [] f = "7z"  -> {sevenZipHeader}
      [] f = "zip" -> {zipHeader}
      [] OTHER     -> {}

\* d begins as data of format f does: with one of its magic numbers, or,
\* for tar, with a block that is a header
StartsAs(f, d) ==
    IF f = "tar"
    THEN /\ Len(d) >= TarBlockSize
         /\ SubSeq(d, 1, TarBlockSize) # Zeros(TarBlockSize)
         /\ TarChecksumOK(SubSeq(d, 1, TarBlockSize))
    ELSE \E h \in HeadersOf(f) : HasPrefix(d, h)

\* the lowercased filename contains the name of f
NameHas(f, filename) ==
    \E i \in 1..Len(filename) :
        /\ i + Len(Name(f)) - 1 <= Len(filename)
        /\ \A j \in 1..Len(Name(f)) :
              LET ch == filename[i + j - 1]
              IN  Name(f)[j] = IF ch >= 65 /\ ch <= 90 THEN ch + 32 ELSE ch

Returned == id.pc = "done"

\* Identify was given no filename and a stream that ends without a failure
PlainCall == id.pc # "off" /\ id.filename = NoFilename /\ rr.src.fail = EOF

ReturnedNoMatch == id.format = NilFormat /\ id.err = ErrNoMatch

\* C3: on every return path the returned reader yields the bytes the passed
\* stream would have yielded from the position it had at the call.
ReaderYieldsFromCallPosition ==
    Returned => id.out = Content

\* C4: Identify resolves its result from the two passes: only a compression
\* format matched gives that format, only an archive format gives that
\* format, both give the CompressedArchive of the two, neither gives no
\* format and the error "no formats matched"; the compression layer is a
\* format the input matches, and none is selected only if none matches.
ResultFollowsPasses ==
    (Returned /\ id.err.msg # "matching") =>
        /\ (id.compression # NoFormat /\ id.archival = NoFormat) =>
              id.format = CompressionFormat(id.compression) /\ id.err = NoError
        /\ (id.compression = NoFormat /\ id.archival # NoFormat) =>
              id.format = ArchivalFormat(id.archival) /\ id.err = NoError
        /\ (id.compression # NoFormat /\ id.archival # NoFormat) =>
              id.format = CompressedArchive(id.compression, id.archival)
              /\ id.err = NoError
        /\ (id.compression = NoFormat /\ id.archival = NoFormat) => ReturnedNoMatch
        /\ id.compression # NoFormat =>
              /\ IsCompression(id.compression)
              /\ NameHas(id.compression, id.filename) \/ StartsAs(id.compression, Content)
        /\ id.compression = NoFormat =>
              \A f \in formats :
                 IsCompression(f) => ~NameHas(f, id.filename) /\ ~StartsAs(f, Content)
        /\ id.archival # NoFormat => IsArchival(id.archival)

\* C4 witness: both passes matched by content and a CompressedArchive came back.
ReturnedCompressedArchive ==
    /\ Returned /\ id.filename = NoFilename
    /\ id.format = CompressedArchive("zst", "tar")

\* C5: Identify never returns an end-of-input error, and a filename with a
\* known compression extension on an empty stream gives that compression
\* format without error.
NoEndOfInputError ==
    Returned =>
        /\ id.err.wraps \notin {EOF, ErrUnexpectedEOF}
        /\ (Content = <<>> /\ rr.src.fail = EOF) =>
              \A f \in formats :
                 (IsCompression(f) /\ NameHas(f, id.filename)) =>
                    id.err = NoError /\ id.format.Compression = f

\* C6: once the stream has failed with an I/O error in a probe, Identify has
\* returned no format and the error that wraps it and names the probed
\* format, so that no further format is probed.
IOErrorAbortsIdentify ==
    id.last.ioErr =>
        /\ Returned
        /\ id.format = NilFormat
        /\ id.err = ErrMatching(id.last.format, ErrIO)

\* C7: no filename and a stream that holds the magic number of a compression
\* format and nothing else give, without error, a format of that name.
MagicAloneIdentified ==
    (Returned /\ PlainCall) =>
        \A f \in formats :
           (IsCompression(f) /\ Content \in HeadersOf(f)) =>
              id.err = NoError /\ FormatName(id.format) = Name(f)

\* C8 as stated: no filename and an empty stream, any 1-byte stream or any
\* stream that starts with no registered format's header give no format and
\* "no formats matched".
SmallOrUnknownGivesNoMatch ==
    (Returned /\ PlainCall
       /\ (Len(Content) <= 1 \/ \A f \in formats : ~StartsAs(f, Content)))
    => ReturnedNoMatch

\* C8 amended: no filename and a stream (the empty one and the 1-byte ones
\* included) that starts with no registered format's header give no format
\* and "no formats matched", never a probe error.
UnknownGivesNoMatch ==
    (Returned /\ PlainCall /\ \A f \in formats : ~StartsAs(f, Content))
    => ReturnedNoMatch

\* C8 witness: a 1-byte stream came back as "no formats matched".
OneByteNoMatch ==
    Returned /\ PlainCall /\ Len(Content) = 1 /\ ReturnedNoMatch

\* the magic numbers that end in a zero byte, without that byte
TrimmedHeaders ==
    { SubSeq(h, 1, Len(h) - 1) : h \in {g \in Headers : g[Len(g)] = 0} }

\* C9: a magic-number format reports ByStream only when the stream supplies
\* all the bytes of its header and they equal it; a header that ends in a
\* zero byte, cut short by that byte, gives no format and "no formats matched".
NoMatchThroughZeroFill ==
    /\ (id.pc # "off" /\ id.last.format \notin {NoFormat, "tar"}
          /\ id.last.comp = NoFormat /\ id.last.mr.ByStream)
       => \E h \in HeadersOf(id.last.format) : HasPrefix(Content, h)
    /\ (Returned /\ PlainCall /\ Content \in TrimmedHeaders) => ReturnedNoMatch

\* C9 witness: the xz header without its final zero byte came back unmatched,
\* the last probe having been the one of xz.
TrimmedXzNoMatch ==
    /\ Returned /\ PlainCall /\ ReturnedNoMatch
    /\ Content = SubSeq(xzHeader, 1, Len(xzHeader) - 1)
    /\ rr.buf = Content

\* C10: Match sets ByName exactly when the lowercased filename contains the
\* format's name, whatever the stream holds, and ByStream from what the
\* stream holds alone, whatever the filename is.
NameAndStreamIndependent ==
    (id.pc # "off" /\ id.last.format # NoFormat /\ id.last.comp = NoFormat) =>
        /\ id.last.mr.ByName = NameHas(id.last.format, id.filename)
        /\ id.last.err = Nil =>
              id.last.mr.ByStream = StartsAs(id.last.format, Content)

\* C10 witness: an archive format probed on an empty stream matched by name
\* and not by stream.
NameOnlyMatch ==
    /\ id.pc # "off" /\ id.last.comp = NoFormat /\ IsArchival(id.last.format)
    /\ Content = <<>> /\ id.last.mr.ByName /\ ~id.last.mr.ByStream

\* what the reader comp.OpenReader makes yields of the data d
Decompressed(comp, d) ==
    CASE comp = NoFormat -> d
      [] comp = "zz" -> From(d, 2)
      [] OTHER -> From(d, Len(Magic(comp)))

\* the formats of the class the loop at pc goes over
ClassAt(pc) ==
    CASE pc = "pass1" -> {g \in formats : IsCompression(g)}
      [] pc = "pass2" -> {g \in formats : IsArchival(g)}
      [] OTHER -> {}

\* the step is an iteration of a loop that ran its probe without error
ProbeStep == id.pc \in {"pass1", "pass2"} /\ id' # id /\ id'.last.err = Nil

\* C11: each pass probes the formats of its class one at a time, each at most
\* once and in any order, and stops at the first probe that matches: that
\* format is the selected layer and the loop is left; a probe that does not
\* match selects nothing and the loop goes on while formats are left; a layer
\* once selected stays, and without probe errors a layer is selected whenever
\* a format of the class matches the input.
FirstMatchWins ==
    [][ /\ ProbeStep =>
              /\ id'.last.format \in ClassAt(id.pc) \ id.probed
              /\ id'.last.comp = id.compression
              /\ Matched(id'.last.mr) =>
                    /\ id'.pc = (IF id.pc = "pass1" THEN "pass2" ELSE "resolve")
                    /\ (IF id.pc = "pass1" THEN id'.compression ELSE id'.archival)
                          = id'.last.format
              /\ ~Matched(id'.last.mr) =>
                    /\ id'.compression = id.compression /\ id'.archival = id.archival
                    /\ id'.pc = id.pc <=>
                          ClassAt(id.pc) \ (id.probed \cup {id'.last.format}) # {}
                    /\ id'.pc = id.pc => id'.probed = id.probed \cup {id'.last.format}
        /\ id.pc = "pass1" => id.compression = NoFormat /\ id.archival = NoFormat
        /\ id.pc = "pass2" => id.archival = NoFormat /\ id'.compression = id.compression
        /\ id.pc \in {"resolve", "done"} =>
              /\ id'.compression = id.compression /\ id'.archival = id.archival
              /\ id'.last = id.last
        /\ (id'.pc = "resolve" /\ id'.archival = NoFormat) =>
              \A f \in formats :
                 IsArchival(f) =>
                    /\ ~NameHas(f, id.filename)
                    /\ ~StartsAs(f, Decompressed(id.compression, Content))
        /\ (id'.pc = "pass2" /\ id'.compression = NoFormat) =>
              \A f \in formats :
                 IsCompression(f) => ~NameHas(f, id.filename) /\ ~StartsAs(f, Content)
      ]_vars

\* C11 witness: gz was probed before zlib and selected on its header, though
\* the filename matches zlib too, which the first loop then never probes.
FirstOfTwoSelected ==
    /\ id.pc = "pass2" /\ id.compression = "gz"
    /\ id.last.format = "gz" /\ id.last.mr.ByStream
    /\ NameHas("zz", id.filename)

----------------------------------------------------------------------------
\* ArchiveFS (the file-system view of an archive).  File names and paths are
\* strings: sequences of ASCII codes.

Slash == 47
\* "."
DotPath == <<46>>
\* ".."
DotDotPath == <<46, 46>>

\* index of the first (last) '/' of s, 0 if it has none
IndexSlash(s) ==
    IF \E i \in 1..Len(s) : s[i] = Slash
    THEN CHOOSE i \in 1..Len(s) : s[i] = Slash /\ \A j \in 1..(i - 1) : s[j] # Slash
    ELSE 0

LastIndexSlash(s) ==
    IF \E i \in 1..Len(s) : s[i] = Slash
    THEN CHOOSE i \in 1..Len(s) : s[i] = Slash /\ \A j \in (i + 1)..Len(s) : s[j] # Slash
    ELSE 0

\* strings.Trim(s, "/")
RECURSIVE TrimSlash(_)
TrimSlash(s) ==
    IF s = <<>> THEN s
    ELSE IF s[1] = Slash THEN TrimSlash(Tail(s))
    ELSE IF s[Len(s)] = Slash THEN TrimSlash(SubSeq(s, 1, Len(s) - 1))
    ELSE s

\* strings.TrimSuffix(s, "/")
TrimSuffixSlash(s) ==
    IF s # <<>> /\ s[Len(s)] = Slash THEN SubSeq(s, 1, Len(s) - 1) ELSE s

\* strings.Split(p, "/")
RECURSIVE Elements(_)
Elements(p) ==
    IF IndexSlash(p) = 0 THEN <<p>>
    ELSE <<SubSeq(p, 1, IndexSlash(p) - 1)>>
         \o Elements(SubSeq(p, IndexSlash(p) + 1, Len(p)))

\* the elements joined by '/'
RECURSIVE JoinElements(_)
JoinElements(es) ==
    IF es = <<>> THEN <<>>
    ELSE IF Len(es) = 1 THEN es[1]
    ELSE es[1] \o <<Slash>> \o JoinElements(Tail(es))

\* path.Clean of a relative path that has no ".." element: empty and "."
\* elements go, and the empty path becomes "."
pathClean(p) ==
    LET kept == SelectSeq(Elements(p), LAMBDA e : e # <<>> /\ e # DotPath)
    IN  IF kept = <<>> THEN DotPath ELSE JoinElements(kept)

\* path.Join(a, b)
pathJoin(a, b) ==
    IF a = <<>> /\ b = <<>> THEN <<>>
    ELSE IF a = <<>> THEN pathClean(b)
    ELSE IF b = <<>> THEN pathClean(a)
    ELSE pathClean(a \o <<Slash>> \o b)

\* path.Dir(p)
pathDir(p) == pathClean(SubSeq(p, 1, LastIndexSlash(p)))

\* strings.TrimRight(s, "/")
RECURSIVE TrimRightSlash(_)
TrimRightSlash(s) ==
    IF s # <<>> /\ s[Len(s)] = Slash
    THEN TrimRightSlash(SubSeq(s, 1, Len(s) - 1))
    ELSE s

\* path.Base(p)
pathBase(p) ==
    IF p = <<>> THEN DotPath
    ELSE IF TrimRightSlash(p) = <<>> THEN <<Slash>>
    ELSE SubSeq(TrimRightSlash(p), LastIndexSlash(TrimRightSlash(p)) + 1,
                Len(TrimRightSlash(p)))

\* fs.ValidPath(name)
ValidPath(name) ==
    \/ name = DotPath
    \/ \A i \in 1..Len(Elements(name)) :
          Elements(name)[i] \notin {<<>>, DotPath, DotDotPath}

\* a < b for strings
StrLess(a, b) ==
    \E i \in 1..(Len(a) + 1) :
       /\ i <= Len(b)
       /\ \A j \in 1..(i - 1) : a[j] = b[j]
       /\ i = Len(a) + 1 \/ a[i] < b[i]

\* strings.HasPrefix(s, prefix)
StrHasPrefix(s, prefix) ==
    Len(s) >= Len(prefix) /\ SubSeq(s, 1, Len(prefix)) = prefix

\* split(name): the directory, the last element, and whether name ends in '/'
split(name) ==
    LET isDir == name[Len(name)] = Slash
        n     == IF isDir THEN SubSeq(name, 1, Len(name) - 1) ELSE name
        i     == LastIndexSlash(n)
    IN  IF i = 0
        THEN [dir |-> DotPath, elem |-> n, isDir |-> isDir]
        ELSE [dir |-> SubSeq(n, 1, i - 1), elem |-> SubSeq(n, i + 1, Len(n)),
              isDir |-> isDir]

\* A File is [FileName, name, dir, size, modTime, implicit]: the path in the
\* archive, and what its FileInfo reports as Name(), IsDir(), Size() and
\* ModTime() (0 is the zero time); implicit marks an implicitDirInfo.

\* the File an Extract makes of the archive entry stored as fileName
ArchiveFile(fileName, isDir) ==
    [FileName |-> fileName, name |-> pathBase(fileName), dir |-> isDir,
     size |-> IF isDir THEN 0 ELSE 1, modTime |-> 1, implicit |-> FALSE]

\* an implicit directory named by its whole path, not by path.Base of it
ImplicitDirFullName(dir) ==
    [FileName |-> dir, name |-> dir, dir |-> TRUE,
     size |-> 0, modTime |-> 0, implicit |-> TRUE]

\* File{FileInfo: implicitDirInfo{implicitDirEntry{path.Base(dir)}}, FileName: dir}
ImplicitDir(dir) ==
    [FileName |-> dir, name |-> pathBase(dir), dir |-> TRUE,
     size |-> 0, modTime |-> 0, implicit |-> TRUE]

\* no File (a nil *File)
NoFile == [FileName |-> <<>>, name |-> <<>>, dir |-> FALSE,
           size |-> 0, modTime |-> 0, implicit |-> FALSE, nil |-> TRUE]

\* a list of paths is [nil, list]
NilList == [nil |-> TRUE, list |-> <<>>]
PathList(ps) == [nil |-> FALSE, list |-> ps]

\* fileIsIncluded without the slash that ends the listed directory
fileIsIncludedByPrefix(filenameList, filename) ==
    \/ filenameList.nil
    \/ \E i \in 1..Len(filenameList.list) :
          StrHasPrefix(filename, TrimSuffixSlash(filenameList.list[i]))

\* fileIsIncluded(filenameList, filename)
fileIsIncluded(filenameList, filename) ==
    \/ filenameList.nil
    \/ \E i \in 1..Len(filenameList.list) :
          \/ filename = filenameList.list[i]
          \/ StrHasPrefix(filename, TrimSuffixSlash(filenameList.list[i]) \o <<Slash>>)

\* Format.Extract(ctx, stream, pathsInArchive, handler) with the handler of
\* Open and ReadDir (stopAtDir = FALSE) or of Stat (stopAtDir = TRUE): the
\* files the handler has collected and whether it stopped the walk at name
RECURSIVE Extract(_, _, _, _, _)
Extract(archive, pathsInArchive, name, stopAtDir, files) ==
    IF archive = <<>>
    THEN [files |-> files, found |-> FALSE]
    ELSE IF ~fileIsIncluded(pathsInArchive, Head(archive).FileName)
    THEN Extract(Tail(archive), pathsInArchive, name, stopAtDir, files)
    ELSE LET file == [Head(archive) EXCEPT !.FileName = TrimSlash(@)]
         IN  IF file.FileName = name /\ (stopAtDir \/ ~file.dir)
             THEN [files |-> Append(files, file), found |-> TRUE]
             ELSE Extract(Tail(archive), pathsInArchive, name, stopAtDir,
                          Append(files, file))

\* the directories above p, "." left out
RECURSIVE ParentDirs(_)
ParentDirs(p) ==
    IF pathDir(p) = DotPath THEN {} ELSE {pathDir(p)} \cup ParentDirs(pathDir(p))

\* the less function fillImplicit sorts with
entryLess(fi, fj) ==
    IF split(fi.FileName).dir # split(fj.FileName).dir
    THEN StrLess(split(fi.FileName).dir, split(fj.FileName).dir)
    ELSE StrLess(split(fi.FileName).elem, split(fj.FileName).elem)

\* sort.Slice(entries, less); the order of entries that compare equal is the
\* one they came in
RECURSIVE InsertEntry(_, _)
InsertEntry(sorted, e) ==
    IF sorted = <<>> THEN <<e>>
    ELSE IF entryLess(e, Head(sorted)) THEN <<e>> \o sorted
    ELSE <<Head(sorted)>> \o InsertEntry(Tail(sorted), e)

RECURSIVE SortEntries(_)
SortEntries(entries) ==
    IF entries = <<>> THEN <<>>
    ELSE InsertEntry(SortEntries(SubSeq(entries, 1, Len(entries) - 1)),
                     entries[Len(entries)])

\* the members of a set of paths, in some order
RECURSIVE SeqOfSet(_)
SeqOfSet(S) ==
    IF S = {} THEN <<>>
    ELSE LET x == CHOOSE y \in S : TRUE IN <<x>> \o SeqOfSet(S \ {x})

\* fillImplicit that leaves the entries in the order they came in
fillImplicitUnsorted(files) ==
    LET dirs      == UNION {ParentDirs(files[i].FileName) : i \in 1..Len(files)}
        knownDirs == {files[i].FileName : i \in {j \in 1..Len(files) : files[j].dir}}
        missing   == SeqOfSet(dirs \ knownDirs)
    IN  files \o [i \in 1..Len(missing) |-> ImplicitDir(missing[i])]

\* fillImplicit(files)
fillImplicit(files) ==
    LET dirs      == UNION {ParentDirs(files[i].FileName) : i \in 1..Len(files)}
        knownDirs == {files[i].FileName : i \in {j \in 1..Len(files) : files[j].dir}}
        missing   == SeqOfSet(dirs \ knownDirs)
    IN  SortEntries(files \o [i \in 1..Len(missing) |-> ImplicitDir(missing[i])])

\* sort.Search(n, f) with pred[i + 1] = f(i): the binary search between i and j
RECURSIVE sortSearch(_, _, _)
sortSearch(pred, i, j) ==
    IF i < j
    THEN IF ~pred[(i + j) \div 2 + 1]
         THEN sortSearch(pred, (i + j) \div 2 + 1, j)
         ELSE sortSearch(pred, i, (i + j) \div 2)
    ELSE i

\* search(name, entries)
search(name, entries) ==
    LET dir  == split(name).dir
        elem == split(name).elem
        At(i) ==
            IF i < Len(entries)
            THEN IF \/ entries[i + 1].FileName = name
                    \/ /\ Len(entries[i + 1].FileName) = Len(name) + 1
                       /\ entries[i + 1].FileName[Len(name) + 1] = Slash
                       /\ SubSeq(entries[i + 1].FileName, 1, Len(name)) = name
                 THEN entries[i + 1] @@ [nil |-> FALSE]
                 ELSE NoFile
            ELSE NoFile
    IN  At(sortSearch([i \in 1..Len(entries) |->
                          \/ StrLess(dir, split(entries[i].FileName).dir)
                          \/ /\ split(entries[i].FileName).dir = dir
                             /\ ~StrLess(split(entries[i].FileName).elem, elem)],
                      0, Len(entries)))

\* fs.FileInfoToDirEntry(file)
FileInfoToDirEntry(file) ==
    [name |-> file.name, dir |-> file.dir, size |-> file.size,
     modTime |-> file.modTime]

\* openReadDir(dir, entries)
openReadDir(dir, entries) ==
    LET Between(i, j) ==
            [idx \in 1..(j - i) |-> FileInfoToDirEntry(entries[i + idx])]
    IN  Between(sortSearch([i \in 1..Len(entries) |->
                               ~StrLess(split(entries[i].FileName).dir, dir)],
                           0, Len(entries)),
                sortSearch([j \in 1..Len(entries) |->
                               StrLess(dir, split(entries[j].FileName).dir)],
                           0, Len(entries)))

\* An ArchiveFS with Stream set and Path empty is [archive, Prefix]: archive
\* is what Format.Extract walks, the entries of the archive in stored order.
\* The results of its methods carry err, one of

ErrInvalid == "fs.ErrInvalid"
ErrNotExist == "fs.ErrNotExist"
\* errors.New("not a dir") in a PathError, and Sub's "%s is not a directory"
ErrNotDir == "not a dir"
\* a run-time panic
Panic == "panic"

\* fakeArchiveFile.Stat(), and Stat(".") of a stream-backed ArchiveFS
RootInfo == [name |-> DotPath, dir |-> TRUE, size |-> 0, modTime |-> 0]

NoInfo == [name |-> <<>>, dir |-> FALSE, size |-> 0, modTime |-> 0]

\* ArchiveFS.ReadDir(name): [entries, err]
ArchiveFSReadDir(f, name0) ==
    LET name == pathJoin(f.Prefix, name0)
        Found(file, files) ==
            IF file.nil THEN [entries |-> <<>>, err |-> ErrNotExist]
            ELSE IF ~file.dir THEN [entries |-> <<>>, err |-> ErrNotDir]
            ELSE [entries |-> openReadDir(name, files), err |-> Nil]
        Filled(files) ==
            IF name = DotPath
            THEN [entries |-> openReadDir(name, files), err |-> Nil]
            ELSE Found(search(name, files), files)
        Extracted(x) ==
            IF x.found THEN [entries |-> <<>>, err |-> ErrNotDir]
            ELSE Filled(fillImplicit(x.files))
    IN  IF ~ValidPath(name0)
        THEN [entries |-> <<>>, err |-> ErrInvalid]
        ELSE Extracted(Extract(f.archive,
                               IF name # DotPath THEN PathList(<<name>>) ELSE NilList,
                               name, FALSE, <<>>))

\* ArchiveFS.Open(name): [kind, info, entries, err]; kind is "dir" for a
\* dirFile, whose ReadDir(-1) returns entries, and "file" for an extractedFile
ArchiveFSOpen(f, name0) ==
    LET name == pathJoin(f.Prefix, name0)
        Fail(err) == [kind |-> "none", info |-> NoInfo, entries |-> <<>>, err |-> err]
        Opened(file, entries) ==
            [kind |-> IF file.dir THEN "dir" ELSE "file",
             info |-> FileInfoToDirEntry(file), entries |-> entries, err |-> Nil]
        Found(file, files) ==
            IF file.nil THEN Fail(ErrNotExist)
            ELSE Opened(file, IF file.dir THEN openReadDir(name, files) ELSE <<>>)
        Implicit(files) == Found(search(name, files), files)
        Extracted(x) ==
            IF Len(x.files) = 0 THEN Fail(ErrNotExist)
            ELSE IF (Len(x.files) = 1 /\ x.files[1].FileName = name) \/ x.found
            THEN Opened(x.files[Len(x.files)], <<>>)
            ELSE Implicit(fillImplicit(x.files))
        Root(rd) ==
            IF rd.err # Nil THEN Fail(rd.err)
            ELSE [kind |-> "dir", info |-> RootInfo, entries |-> rd.entries, err |-> Nil]
    IN  IF ~ValidPath(name0) THEN Fail(ErrInvalid)
        ELSE IF name = DotPath THEN Root(ArchiveFSReadDir(f, name))
        ELSE Extracted(Extract(f.archive, PathList(<<name>>), name, FALSE, <<>>))

\* ArchiveFS.Stat(name): [info, err]
ArchiveFSStat(f, name0) ==
    LET name == pathJoin(f.Prefix, name0)
        Found(file) ==
            IF file.nil THEN [info |-> NoInfo, err |-> ErrNotExist]
            ELSE [info |-> FileInfoToDirEntry(file), err |-> Nil]
        Extracted(x) ==
            IF Len(x.files) = 0 THEN [info |-> NoInfo, err |-> Panic]
            ELSE IF x.found
            THEN [info |-> FileInfoToDirEntry(x.files[Len(x.files)]), err |-> Nil]
            ELSE Found(search(name, fillImplicit(x.files)))
    IN  IF ~ValidPath(name0) THEN [info |-> NoInfo, err |-> ErrInvalid]
        ELSE IF name = DotPath THEN [info |-> RootInfo, err |-> Nil]
        ELSE Extracted(Extract(f.archive, PathList(<<name>>), name, TRUE, <<>>))

\* ArchiveFS.Sub(dir): [f, err]; f is the receiver, which the returned FS is
ArchiveFSSub(f, dir) ==
    LET Statted(st) ==
            IF st.err # Nil THEN [f |-> f, err |-> st.err]
            ELSE IF ~st.info.dir THEN [f |-> f, err |-> ErrNotDir]
            ELSE [f |-> [f EXCEPT !.Prefix = dir], err |-> Nil]
    IN  IF ~ValidPath(dir) THEN [f |-> f, err |-> ErrInvalid]
        ELSE Statted(ArchiveFSStat(f, dir))

\* The archives and the calls of the ArchiveFS runs.

\* most entries an archive holds
MaxEntries == 3

\* the entries archives are made of, as a zip stores them: the files "a/b/c",
\* "a/d", "1/1", "1/2", "2/1" and "x", the directories "a/" and "e/"
EntryUniverse ==
    { ArchiveFile(<<97, 47, 98, 47, 99>>, FALSE), ArchiveFile(<<97, 47, 100>>, FALSE),
      ArchiveFile(<<49, 47, 49>>, FALSE), ArchiveFile(<<49, 47, 50>>, FALSE),
      ArchiveFile(<<50, 47, 49>>, FALSE), ArchiveFile(<<120>>, FALSE),
      ArchiveFile(<<97, 47>>, TRUE), ArchiveFile(<<101, 47>>, TRUE) }

\* an archive stores each of its entries once, in any order
Archives ==
    { ar \in UNION {[1..n -> EntryUniverse] : n \in 0..MaxEntries} :
         \A i, j \in 1..Len(ar) : ar[i] = ar[j] => i = j }

\* the names handed to the methods: ".", "a", "a/b", "a/d", "b", "b/c", "1",
\* "e", "x", "zz" and the invalid "a/"
CallNames ==
    { DotPath, <<97>>, <<97, 47, 98>>, <<97, 47, 100>>, <<98>>, <<98, 47, 99>>,
      <<49>>, <<101>>, <<120>>, <<122, 122>>, <<97, 47>> }

\* what a call returned: the error; for Open the kind of file and, of a
\* dirFile, what ReadDir(-1) lists; for Open and Stat the FileInfo; for
\* ReadDir the listing
CallResult(err, kind, info, entries) ==
    [err |-> err, kind |-> kind, info |-> info, entries |-> entries]

NoCall == [op |-> "none", name |-> <<>>, prefix |-> <<>>,
           res |-> CallResult(Nil, "none", NoInfo, <<>>)]

InitArchiveFS ==
    /\ \E ar \in Archives :
         afs = [on |-> TRUE, archive |-> ar, Prefix |-> <<>>, call |-> NoCall]
    /\ \E s \in Sources : s = Stream(<<>>, 0, "no", EOF) /\ rr = newRewindReader(s)
    /\ hist = NoHist
    /\ id = NoId
    /\ ca = NoCompressedArchive
    /\ NoMore

\* Open, ReadDir and Stat leave the ArchiveFS as it was, so a run is a chain
\* of successful Sub calls and then one call of any of the methods.
Callable ==
    /\ afs.on
    /\ afs.call.op = "none" \/ (afs.call.op = "Sub" /\ afs.call.res.err = Nil)

\* fsys.Open(name)
CallOpen ==
    /\ Callable
    /\ \E name \in CallNames :
       \E r \in {ArchiveFSOpen(afs, name)} :
          afs' = [afs EXCEPT !.call = [op |-> "Open", name |-> name, prefix |-> afs.Prefix,
                                       res |-> CallResult(r.err, r.kind, r.info, r.entries)]]
    /\ UNCHANGED <<rr, hist, id, ca, more>>

\* fsys.ReadDir(name)
CallReadDir ==
    /\ Callable
    /\ \E name \in CallNames :
       \E r \in {ArchiveFSReadDir(afs, name)} :
          afs' = [afs EXCEPT !.call = [op |-> "ReadDir", name |-> name, prefix |-> afs.Prefix,
                                       res |-> CallResult(r.err, "none", NoInfo, r.entries)]]
    /\ UNCHANGED <<rr, hist, id, ca, more>>

\* fsys.Stat(name)
CallStat ==
    /\ Callable
    /\ \E name \in CallNames :
       \E r \in {ArchiveFSStat(afs, name)} :
          afs' = [afs EXCEPT !.call = [op |-> "Stat", name |-> name, prefix |-> afs.Prefix,
                                       res |-> CallResult(r.err, "none", r.info, <<>>)]]
    /\ UNCHANGED <<rr, hist, id, ca, more>>

\* fsys.Sub(dir); the calls that follow are calls on the FS it returned
CallSub ==
    /\ Callable
    /\ \E dir \in CallNames :
       \E r \in {ArchiveFSSub(afs, dir)} :
          afs' = [afs EXCEPT !.Prefix = r.f.Prefix,
                             !.call = [op |-> "Sub", name |-> dir, prefix |-> afs.Prefix,
                                       res |-> CallResult(r.err, "none", NoInfo, <<>>)]]
    /\ UNCHANGED <<rr, hist, id, ca, more>>

NextArchiveFS == CallOpen \/ CallReadDir \/ CallStat \/ CallSub

SpecArchiveFS == InitArchiveFS /\ [][NextArchiveFS]_vars

----------------------------------------------------------------------------
\* What the ArchiveFS claims speak of.

\* the archive path the latest call resolved its name to
CallPath == pathJoin(afs.call.prefix, afs.call.name)

\* the latest call was op, with a valid name
Called(op) == afs.on /\ afs.call.op = op /\ ValidPath(afs.call.name)

\* the paths of the archive's entries, and of its directory entries
EntryPaths == {TrimSlash(afs.archive[i].FileName) : i \in 1..Len(afs.archive)}
DirEntryPaths ==
    {TrimSlash(afs.archive[i].FileName) :
        i \in {j \in 1..Len(afs.archive) : afs.archive[j].dir}}

\* path p lies below directory d
Below(p, d) == p # d /\ (d = DotPath \/ StrHasPrefix(p, d \o <<Slash>>))

\* the directories the entry paths imply
ImpliedDirs == {d \in UNION {ParentDirs(p) : p \in EntryPaths} : d \notin DirEntryPaths}

\* the elements of p that follow d, for p below d
ElementsBelow(p, d) == Elements(IF d = DotPath THEN p ELSE From(p, Len(d) + 1))

\* what a listing of d has to hold: an entry for each file or directory
\* entry stored directly in d, and a synthesized directory for each further
\* first element of a path below d
Children(d) ==
    { IF Len(ElementsBelow(p, d)) = 1
      THEN [name |-> ElementsBelow(p, d)[1], dir |-> p \in DirEntryPaths,
            size |-> IF p \in DirEntryPaths THEN 0 ELSE 1, modTime |-> 1]
      ELSE IF pathJoin(d, ElementsBelow(p, d)[1]) \in DirEntryPaths
      THEN [name |-> ElementsBelow(p, d)[1], dir |-> TRUE, size |-> 0, modTime |-> 1]
      ELSE [name |-> ElementsBelow(p, d)[1], dir |-> TRUE, size |-> 0, modTime |-> 0]
      : p \in {q \in EntryPaths : Below(q, d)} }

\* the entries and the names of a listing
EntrySet(entries) == {entries[i] : i \in 1..Len(entries)}
NameSet(entries) == {entries[i].name : i \in 1..Len(entries)}

\* C12: for an archive without directory entries, ReadDir(d) of the root or
\* of a directory the entry paths imply returns, each once, the immediate
\* children of d: the files stored in d, and for every subdirectory implied
\* below d one entry of size 0, zero modification time and the directory bit.
ReadDirListsChildren ==
    (Called("ReadDir") /\ DirEntryPaths = {}
       /\ (CallPath = DotPath \/ CallPath \in ImpliedDirs))
    => /\ afs.call.res.err = Nil
       /\ EntrySet(afs.call.res.entries) = Children(CallPath)
       /\ Len(afs.call.res.entries) = Cardinality(Children(CallPath))

\* C12 witness: the archive of "a/b/c" and "a/d" listed "a" as the implicit
\* directory "b" and the file "d".
ListedImplicitAndFile ==
    /\ Called("ReadDir") /\ DirEntryPaths = {} /\ CallPath = <<97>>
    /\ EntryPaths = {<<97, 47, 98, 47, 99>>, <<97, 47, 100>>}
    /\ NameSet(afs.call.res.entries) = {<<98>>, <<100>>}
    /\ \E i \in 1..2 : afs.call.res.entries[i]
                          = [name |-> <<98>>, dir |-> TRUE, size |-> 0, modTime |-> 0]

\* the orders in which an archive can store the entries of ar
StoredOrders(ar) ==
    { p \in [1..Len(ar) -> EntrySet(ar)] : \A i, j \in 1..Len(ar) : p[i] = p[j] => i = j }

\* what a caller sees of a call: the error (nil, not found, not a directory,
\* ...), the kind of file opened, the FileInfo, and the names listed
Outcome(res) ==
    [err |-> res.err, kind |-> res.kind, info |-> res.info, names |-> NameSet(res.entries)]

\* the result of the method op on f
CallOf(op, f, name) ==
    CASE op = "Open" ->
           LET R(r) == CallResult(r.err, r.kind, r.info, r.entries)
           IN  R(ArchiveFSOpen(f, name))
      [] op = "ReadDir" ->
           LET R(r) == CallResult(r.err, "none", NoInfo, r.entries)
           IN  R(ArchiveFSReadDir(f, name))
      [] op = "Stat" ->
           LET R(r) == CallResult(r.err, "none", r.info, <<>>)
           IN  R(ArchiveFSStat(f, name))

KnownPaths == EntryPaths \cup ImpliedDirs

\* C14: a valid path that names neither a stored entry nor an implied
\* directory makes Open, Stat and ReadDir each return fs.ErrNotExist, and
\* none of them crashes.
MissingIsNotExist ==
    \A op \in {"Open", "Stat", "ReadDir"} :
       (Called(op) /\ CallPath # DotPath /\ CallPath \notin KnownPaths)
          => afs.call.res.err = ErrNotExist

\* C14, the two methods that do as stated: Open and ReadDir of a missing
\* path return fs.ErrNotExist.
MissingOpenReadDirNotExist ==
    \A op \in {"Open", "ReadDir"} :
       (Called(op) /\ CallPath # DotPath /\ CallPath \notin KnownPaths)
          => afs.call.res.err = ErrNotExist

\* dirFile.ReadDir(n) of a dirFile that holds entries and has handed out
\* entriesRead of them, with the paging branch cut out: n <= 0 is not served
dirFileReadDirPaged(entries, entriesRead, n) ==
    IF entriesRead >= Len(entries)
    THEN [entries |-> <<>>, err |-> "EOF", entriesRead |-> entriesRead]
    ELSE LET m == IF entriesRead + n > Len(entries) THEN Len(entries) - entriesRead ELSE n
         IN  [entries |-> SubSeq(entries, entriesRead + 1, entriesRead + m), err |-> Nil,
              entriesRead |-> entriesRead + m]

\* dirFile.ReadDir(n) without df.entriesRead += n
dirFileReadDirInPlace(entries, entriesRead, n) ==
    IF n <= 0
    THEN [entries |-> entries, err |-> Nil, entriesRead |-> entriesRead]
    ELSE IF entriesRead >= Len(entries)
    THEN [entries |-> <<>>, err |-> "EOF", entriesRead |-> entriesRead]
    ELSE LET m == IF entriesRead + n > Len(entries) THEN Len(entries) - entriesRead ELSE n
         IN  [entries |-> SubSeq(entries, entriesRead + 1, entriesRead + m), err |-> Nil,
              entriesRead |-> entriesRead]

\* dirFile.ReadDir(n): [entries, err, entriesRead]
dirFileReadDir(entries, entriesRead, n) ==
    IF n <= 0
    THEN [entries |-> entries, err |-> Nil, entriesRead |-> entriesRead]
    ELSE IF entriesRead >= Len(entries)
    THEN [entries |-> <<>>, err |-> "EOF", entriesRead |-> entriesRead]
    ELSE LET m == IF entriesRead + n > Len(entries) THEN Len(entries) - entriesRead ELSE n
         IN  [entries |-> SubSeq(entries, entriesRead + 1, entriesRead + m), err |-> Nil,
              entriesRead |-> entriesRead + m]

\* the directory paths of the archive: the root, the stored directory entries
\* and the implied directories
DirPaths == {DotPath} \cup DirEntryPaths \cup ImpliedDirs

\* C15: for every directory path d of the archive (the root, a stored
\* directory entry, an implied directory) Open(d) returns a directory file
\* whose ReadDir(-1) lists the same names as ArchiveFS.ReadDir(d).
OpenDirListsAsReadDir ==
    (Called("Open") /\ CallPath \in DirPaths) =>
        LET Same(listed, rd) ==
               /\ listed.err = Nil
               /\ rd.err = Nil
               /\ NameSet(listed.entries) = NameSet(rd.entries)
        IN  /\ afs.call.res.err = Nil
            /\ afs.call.res.kind = "dir"
            /\ Same(dirFileReadDir(afs.call.res.entries, 0, -1),
                    ArchiveFSReadDir(afs, afs.call.name))

\* C15 witness: Open("a") on the archive of "a/b/c" and "a/d", where "a" is an
\* implied directory, returned a directory file holding "b" and "d".
OpenedImplicitDir ==
    /\ Called("Open") /\ CallPath = <<97>> /\ DirEntryPaths = {}
    /\ EntryPaths = {<<97, 47, 98, 47, 99>>, <<97, 47, 100>>}
    /\ afs.call.res.kind = "dir"
    /\ NameSet(dirFileReadDir(afs.call.res.entries, 0, -1).entries) = {<<98>>, <<100>>}

\* C16: Sub(p) on an ArchiveFS rooted at q, p a directory inside it, returns
\* a view rooted at q/p, at any depth of nesting; the operations on the view
\* resolve a name n to the root of the view joined with n.
SubRootsAtJoinedPath ==
    (afs.on /\ afs.call.op = "Sub" /\ afs.call.res.err = Nil)
        => afs.Prefix = pathJoin(afs.call.prefix, afs.call.name)

----------------------------------------------------------------------------
\* CompressedArchive (formats.go): a compression layer over an archival
\* layer, either of which may be nil (NoFormat).  ca holds the value, the
\* filename and the latest call on it; the stream of the call is rr, a
\* rewindReader that is never rewound, so that its Read is the Read of the
\* stream under it.

\* a layer's answer within CompressedArchive.Match, and a layer not asked
Asked(mr) == [asked |-> TRUE, mr |-> mr]
NotAsked == [asked |-> FALSE, mr |-> NoMatchResult]

\* CompressedArchive.Match that goes on to return the compression layer's
\* match when the archival layer has not matched
CompressedArchiveMatchKeepsFirst(caf, filename, stream) ==
    LET Return(mr, err, s, comp, arch) ==
            [mr |-> mr, err |-> err, s |-> s, comp |-> comp, arch |-> arch]
        Archival(m, conglomerate, comp) ==
            IF m.err # Nil
            THEN Return(NoMatchResult, m.err, m.s, comp, NotAsked)
            ELSE IF ~Matched(m.mr)
            THEN Return(conglomerate, Nil, m.s, comp, Asked(m.mr))
            ELSE Return([ByName |-> conglomerate.ByName \/ m.mr.ByName,
                         ByStream |-> conglomerate.ByStream \/ m.mr.ByStream],
                        Nil, m.s, comp, Asked(m.mr))
        Second(s, conglomerate, comp) ==
            IF caf.Archival # NoFormat
            THEN Archival(Match(caf.Archival, filename, s), conglomerate, comp)
            ELSE Return(conglomerate, Nil, s, comp, NotAsked)
        Opened(o, mr) ==
            IF o.err # Nil
            THEN Return(mr, o.err, o.s, Asked(mr), NotAsked)
            ELSE Second(o.s, mr, Asked(mr))
        Compression(m) ==
            IF m.err # Nil
            THEN Return(NoMatchResult, m.err, m.s, NotAsked, NotAsked)
            ELSE IF ~Matched(m.mr)
            THEN Return(m.mr, Nil, m.s, Asked(m.mr), NotAsked)
            ELSE Opened(OpenReader(caf.Compression, m.s.rr), m.mr)
    IN  IF caf.Compression # NoFormat
        THEN Compression(Match(caf.Compression, filename, stream))
        ELSE Second(stream, NoMatchResult, NotAsked)

\* CompressedArchive.Match(filename, stream): the MatchResult and the error
\* returned, the stream as the call leaves it, and what each layer answered
CompressedArchiveMatch(caf, filename, stream) ==
    LET Return(mr, err, s, comp, arch) ==
            [mr |-> mr, err |-> err, s |-> s, comp |-> comp, arch |-> arch]
        Archival(m, conglomerate, comp) ==
            IF m.err # Nil
            THEN Return(NoMatchResult, m.err, m.s, comp, NotAsked)
            ELSE IF ~Matched(m.mr)
            THEN Return(m.mr, Nil, m.s, comp, Asked(m.mr))
            ELSE Return([ByName |-> conglomerate.ByName \/ m.mr.ByName,
                         ByStream |-> conglomerate.ByStream \/ m.mr.ByStream],
                        Nil, m.s, comp, Asked(m.mr))
        Second(s, conglomerate, comp) ==
            IF caf.Archival # NoFormat
            THEN Archival(Match(caf.Archival, filename, s), conglomerate, comp)
            ELSE Return(conglomerate, Nil, s, comp, NotAsked)
        \* rc, err := caf.Compression.OpenReader(stream), on the stream as
        \* the compression layer's Match left it
        Opened(o, mr) ==
            IF o.err # Nil
            THEN Return(mr, o.err, o.s, Asked(mr), NotAsked)
            ELSE Second(o.s, mr, Asked(mr))
        Compression(m) ==
            IF m.err # Nil
            THEN Return(NoMatchResult, m.err, m.s, NotAsked, NotAsked)
            ELSE IF ~Matched(m.mr)
            THEN Return(m.mr, Nil, m.s, Asked(m.mr), NotAsked)
            ELSE Opened(OpenReader(caf.Compression, m.s.rr), m.mr)
    IN  IF caf.Compression # NoFormat
        THEN Compression(Match(caf.Compression, filename, stream))
        ELSE Second(stream, NoMatchResult, NotAsked)

\* CompressedArchive.Name() with the two names in the other order
CompressedArchiveNameCompressionFirst(caf) ==
    IF caf.Compression = NoFormat /\ caf.Archival = NoFormat
    THEN [panic |-> TRUE, name |-> <<>>]
    ELSE [panic |-> FALSE,
          name |-> (IF caf.Compression # NoFormat THEN Name(caf.Compression) ELSE <<>>)
                   \o (IF caf.Archival # NoFormat THEN Name(caf.Archival) ELSE <<>>)]

\* CompressedArchive.Name(): [panic, name]
CompressedArchiveName(caf) ==
    IF caf.Compression = NoFormat /\ caf.Archival = NoFormat
    THEN [panic |-> TRUE, name |-> <<>>]
    ELSE [panic |-> FALSE,
          name |-> (IF caf.Archival # NoFormat THEN Name(caf.Archival) ELSE <<>>)
                   \o (IF caf.Compression # NoFormat THEN Name(caf.Compression) ELSE <<>>)]

\* comp.OpenWriter(output) of a format value with its options at their zero
\* values, as RegisterFormat registers it: the writer is made without error
OpenWriter(f) == [comp |-> f, err |-> Nil]

\* How a call of Archive or Extract ends: "returned" with err, "panic" on the
\* method call through the nil Archival interface value, or "delegated": the
\* call returns what the archival layer's method returns for the stream s.
Ended(outcome, err, s) == [outcome |-> outcome, err |-> err, s |-> s]

\* CompressedArchive.Archive(ctx, output, files)
CompressedArchiveArchive(caf, stream) ==
    LET Opened(w) ==
            IF w.err # Nil THEN Ended("returned", w.err, stream)
            ELSE IF caf.Archival = NoFormat THEN Ended("panic", Nil, stream)
            ELSE Ended("delegated", Nil, stream)
    IN  Opened(IF caf.Compression # NoFormat
               THEN OpenWriter(caf.Compression)
               ELSE [comp |-> NoFormat, err |-> Nil])

\* CompressedArchive.Extract(ctx, sourceArchive, pathsInArchive, handleFile)
CompressedArchiveExtract(caf, stream) ==
    LET Opened(o) ==
            IF o.err # Nil THEN Ended("returned", o.err, o.s)
            ELSE IF caf.Archival = NoFormat THEN Ended("panic", Nil, o.s)
            ELSE Ended("delegated", Nil, o.s)
    IN  Opened(IF caf.Compression # NoFormat
               THEN OpenReader(caf.Compression, stream.rr)
               ELSE [s |-> stream, err |-> Nil])

\* The values, filenames and streams of the CompressedArchive runs.

\* the layers a CompressedArchive is built of
CompressionLayers == {NoFormat, "br", "xz", "zz", "zst"}
ArchivalLayers == {NoFormat, "tar", "zip"}

\* the stream contents: plain data, archives, compressed data, compressed
\* archives, and an archive behind the zstd magic number written twice
CompressedContents ==
    { <<>>, <<97>>, TxtContent \o TxtContent, TarHeaderBlock, zipHeader,
      ZlibHead, ZlibBadHead, zstdHeader, xzHeader,
      ZlibHead \o TarHeaderBlock, ZlibHead \o zipHeader,
      zstdHeader \o TarHeaderBlock, zstdHeader \o zipHeader,
      xzHeader \o TarHeaderBlock, zstdHeader \o zstdHeader \o TarHeaderBlock }

\* the filenames of the calls: those handed to Identify and "a.tar.zst"
TarZstFilename == <<97, 46, 116, 97, 114, 46, 122, 115, 116>>
CompressedArchiveFilenames == Filenames \cup {TarZstFilename}

InitCompressedArchive ==
    /\ \E c \in CompressionLayers, a \in ArchivalLayers,
          fn \in CompressedArchiveFilenames :
         ca = [on |-> TRUE, Compression |-> c, Archival |-> a, filename |-> fn,
               call |-> [op |-> "none", outcome |-> "none"]]
    /\ \E d \in CompressedContents, f \in {EOF, ErrIO} :
         rr = newRewindReader(Stream(d, 0, "no", f))
    /\ hist = NoHist
    /\ id = NoId
    /\ afs = NoArchiveFS
    /\ NoMore

NotCalled == ca.on /\ ca.call.op = "none"

\* caf.Match(filename, stream)
CallMatch ==
    /\ NotCalled
    /\ \E m \in {CompressedArchiveMatch(ca, ca.filename, RawStream(rr))} :
          /\ ca' = [ca EXCEPT !.call = [op |-> "Match", outcome |-> "returned",
                                        mr |-> m.mr, err |-> m.err,
                                        comp |-> m.comp, arch |-> m.arch]]
          /\ rr' = m.s.rr
    /\ UNCHANGED <<hist, id, afs, more>>

\* caf.Name()
CallName ==
    /\ NotCalled
    /\ \E n \in {CompressedArchiveName(ca)} :
          ca' = [ca EXCEPT !.call = [op |-> "Name", name |-> n.name,
                                     outcome |-> IF n.panic THEN "panic" ELSE "returned"]]
    /\ UNCHANGED <<rr, hist, id, afs, more>>

\* caf.Archive(ctx, output, files)
CallArchive ==
    /\ NotCalled
    /\ \E e \in {CompressedArchiveArchive(ca, RawStream(rr))} :
          ca' = [ca EXCEPT !.call = [op |-> "Archive", outcome |-> e.outcome,
                                     err |-> e.err]]
    /\ UNCHANGED <<rr, hist, id, afs, more>>

\* caf.Extract(ctx, stream, pathsInArchive, handleFile)
CallExtract ==
    /\ NotCalled
    /\ \E e \in {CompressedArchiveExtract(ca, RawStream(rr))} :
          /\ ca' = [ca EXCEPT !.call = [op |-> "Extract", outcome |-> e.outcome,
                                        err |-> e.err]]
          /\ rr' = e.s.rr
    /\ UNCHANGED <<hist, id, afs, more>>

NextCompressedArchive == CallMatch \/ CallName \/ CallArchive \/ CallExtract

SpecCompressedArchive == InitCompressedArchive /\ [][NextCompressedArchive]_vars

----------------------------------------------------------------------------
\* Claims about CompressedArchive.

CalledCa(op) == ca.on /\ ca.call.op = op

\* the stream of the call is non-seekable, does not fail, and holds an
\* archive of the archival layer compressed by the compression layer
CompressedArchiveStream ==
    /\ ca.Compression # NoFormat /\ ca.Archival # NoFormat
    /\ rr.src.seek = "no" /\ rr.src.fail = EOF
    /\ StartsAs(ca.Compression, Content)
    /\ StartsAs(ca.Archival, Decompressed(ca.Compression, Content))

\* C17: on a non-seekable stream that holds an archive compressed by the
\* compression layer, CompressedArchive.Match with no filename returns
\* ByStream matched and no error: the archival layer is matched against the
\* decompression of the stream from its first byte.
CompressedStreamMatches ==
    (CalledCa("Match") /\ ca.filename = NoFilename /\ CompressedArchiveStream)
        => /\ ca.call.err = Nil
           /\ ca.call.mr.ByStream

\* the stream as it was handed to the call
HandedStream == RawStream(newRewindReader(Stream(rr.src.data, 0, "no", rr.src.fail)))

\* every layer that is set was asked and matched
EverySetLayerMatched ==
    /\ ca.Compression # NoFormat => (ca.call.comp.asked /\ Matched(ca.call.comp.mr))
    /\ ca.Archival # NoFormat => (ca.call.arch.asked /\ Matched(ca.call.arch.mr))

\* some layer that is set was asked and did not match
SomeSetLayerUnmatched ==
    \/ ca.call.comp.asked /\ ~Matched(ca.call.comp.mr)
    \/ ca.call.arch.asked /\ ~Matched(ca.call.arch.mr)

TarZstName == <<46, 116, 97, 114, 46, 122, 115, 116>>

\* C19: CompressedArchive.Name() is the archival layer's name followed by the
\* compression layer's name, a missing layer contributing nothing (".tar"
\* and ".zst" give ".tar.zst"), and it panics exactly when neither is set.
NameIsArchivalThenCompression ==
    CalledCa("Name") =>
        LET LayerName(f) == IF f = NoFormat THEN <<>> ELSE Name(f)
        IN  /\ ca.call.outcome = "panic"
                 <=> (ca.Compression = NoFormat /\ ca.Archival = NoFormat)
            /\ ca.call.outcome # "panic" =>
                 /\ ca.call.outcome = "returned"
                 /\ ca.call.name = LayerName(ca.Archival) \o LayerName(ca.Compression)
            /\ (ca.Archival = "tar" /\ ca.Compression = "zst") => ca.call.name = TarZstName
            /\ (ca.Archival = "tar" /\ ca.Compression = NoFormat) => ca.call.name = TarName
            /\ (ca.Archival = NoFormat /\ ca.Compression = "zst") => ca.call.name = ZstdName

\* C19 witness: Name() of the Zstd and Tar composite returned ".tar.zst".
NamedTarZst ==
    /\ CalledCa("Name") /\ ca.Archival = "tar" /\ ca.Compression = "zst"
    /\ ca.call.outcome = "returned" /\ ca.call.name = TarZstName

\* C20: a CompressedArchive without its archival layer (with or without the
\* compression layer) answers Match, Archive and Extract with an error: the
\* call returns, and what it returns is not a success.
MissingArchivalIsError ==
    \A op \in {"Match", "Archive", "Extract"} :
       (CalledCa(op) /\ ca.Archival = NoFormat)
          => (ca.call.outcome = "returned" /\ ca.call.err # Nil)

----------------------------------------------------------------------------
\* Archive, ArchiveAsync, Insert and Extract of Tar and Zip (tar.go, zip.go).
\* wk holds one running call:
\*   format, op       "tar" or "zip", and the method
\*   ContinueOnError  the field of the format value
\*   files            Archive, ArchiveAsync, Insert: the files to write;
\*                    Extract: the entries of the archive.  An entry carries
\*                    what happens on it: res = "fail" when writing it (or
\*                    the handler on it) fails, "skip" when the handler
\*                    returns fs.SkipDir, "ok" otherwise
\*   paths            pathsInArchive of Extract
\*   pc, i            "scan" (Insert reading the archive it appends to),
\*                    "top" (at the head of the iteration for files[i]),
\*                    "body" (past the context check of that iteration),
\*                    "done" (returned)
\*   cancelled        ctx.Err() # nil; cancelAt is where the call was then
\*   out              the names written, or handed to the handler, in order
\*   begun            the iterations that passed their context check, each
\*                    with the cancelled it saw
\*   skipDirs, err    the skipList of Extract, and the error returned
\* The archives read are well formed: tar's Next fails only at the end.

\* s.add(dir) of a skipList that appends without looking at the list
skipListAddAppends(s, dir) == Append(s, dir)

\* (*skipList).add(dir), from index i on (0-based i of the code is i - 1)
RECURSIVE skipListAddFrom(_, _, _, _)
skipListAddFrom(s, dir, i, dontAdd) ==
    LET trimmedDir == TrimSuffixSlash(dir)
        trimmedElem == TrimSuffixSlash(s[i])
    IN  IF i > Len(s)
        THEN IF dontAdd THEN s ELSE Append(s, dir)
        ELSE IF trimmedDir = trimmedElem
        THEN s
        ELSE IF StrHasPrefix(trimmedDir, trimmedElem \o <<Slash>>)
        THEN skipListAddFrom(s, dir, i + 1, TRUE)
        ELSE IF StrHasPrefix(trimmedElem, trimmedDir \o <<Slash>>)
        THEN skipListAddFrom(SubSeq(s, 1, i - 1) \o SubSeq(s, i + 1, Len(s)),
                             dir, i, dontAdd)
        ELSE skipListAddFrom(s, dir, i + 1, dontAdd)

\* (*skipList).add(dir)
skipListAdd(s, dir) == skipListAddFrom(s, dir, 1, FALSE)

\* context.Canceled, and the failure of writing an entry or of the handler
ErrCanceled == "context canceled"
ErrEntry == "entry failed"

\* the errors the calls return: cause as it is, or wrapped with %w in a
\* message that names the entry
NoWalkErr == [cause |-> Nil, wrapped |-> FALSE, entry |-> <<>>]
RawErr(cause) == [cause |-> cause, wrapped |-> FALSE, entry |-> <<>>]
EntryErr(name, cause) == [cause |-> cause, wrapped |-> TRUE, entry |-> name]

\* the directory a fs.SkipDir on file makes Extract skip
SkipDirPath(file) ==
    IF file.dir THEN file.FileName ELSE pathDir(file.FileName) \o <<Slash>>

\* for { ... } of Tar.Extract runs its context check before Next() finds the
\* end of the archive; the range loops end without one
ChecksAtEnd(w) == w.format = "tar" /\ w.op = "Extract"

\* whether a failed entry is logged and skipped
ContinuesOnError(w) ==
    CASE w.format = "tar" /\ w.op \in {"Archive", "ArchiveAsync", "Insert"} ->
           w.ContinueOnError /\ ~w.cancelled
      [] w.format = "tar" /\ w.op = "Extract" -> FALSE
      [] w.format = "zip" /\ w.op = "Archive" -> FALSE
      [] w.format = "zip" /\ w.op = "ArchiveAsync" -> w.ContinueOnError /\ ~w.cancelled
      [] w.format = "zip" /\ w.op = "Extract" -> w.ContinueOnError

Return(w, err) == [w EXCEPT !.pc = "done", !.err = err]
Continue(w) == [w EXCEPT !.pc = "top", !.i = @ + 1]

\* the head of an iteration: the end of the loop, and the context check
WalkTop(w) ==
    IF w.i > Len(w.files) /\ ~ChecksAtEnd(w)
    THEN Return(w, NoWalkErr)
    ELSE IF w.cancelled
    THEN Return(w, RawErr(ErrCanceled))
    ELSE [w EXCEPT !.pc = "body",
                   !.begun = @ \cup {[i |-> w.i, cancelled |-> w.cancelled]}]

\* the rest of an iteration of Archive, ArchiveAsync or Insert:
\* writeFileToArchive or archiveOneFile past its context check, and what the
\* loop does with its error
WalkWrite(w) ==
    LET file == w.files[w.i]
    IN  IF file.res = "fail"
        THEN IF ContinuesOnError(w) THEN Continue(w)
             ELSE Return(w, EntryErr(file.FileName, ErrEntry))
        ELSE Continue([w EXCEPT !.out = Append(@, file.FileName)])

\* the rest of an iteration of Extract
WalkExtract(w) ==
    LET file == w.files[w.i]
        Handled(h) ==
            IF file.res = "skip"
            THEN Continue([h EXCEPT !.skipDirs = skipListAdd(@, SkipDirPath(file))])
            ELSE IF file.res = "fail"
            THEN IF ContinuesOnError(h) THEN Continue(h)
                 ELSE Return(h, EntryErr(file.FileName, ErrEntry))
            ELSE Continue(h)
    IN  IF w.i > Len(w.files) THEN Return(w, NoWalkErr)
        ELSE IF ~fileIsIncluded(w.paths, file.FileName) THEN Continue(w)
        ELSE IF fileIsIncluded(PathList(w.skipDirs), file.FileName) THEN Continue(w)
        ELSE Handled([w EXCEPT !.out = Append(@, file.FileName)])

\* The calls of the walk runs.

\* most files a call writes, most entries an archive holds
MaxFiles == 3

\* an entry: its path in the archive, whether it is a directory, and res
WalkEntryOf(fileName, isDir, res) == [FileName |-> fileName, dir |-> isDir, res |-> res]

\* the paths the archives are made of: orders of
\* "a/", "a/b", "ab", "x", "y", "a/c", "d/e", "a/b/c", "a"
WalkNames ==
    { << <<97, 47>>, <<97, 47, 98>>, <<97, 98>>, <<120>> >>,
      << <<97>>, <<97, 98>>, <<97, 47, 98>>, <<121>> >>,
      << <<120>>, <<121>>, <<97, 47, 98>>, <<97, 47, 99>> >>,
      << <<97, 47, 98>>, <<100, 47, 101>>, <<97, 47, 99>>, <<120>> >>,
      << <<97, 47, 98, 47, 99>>, <<97, 47, 98>>, <<97, 47, 99>>, <<97, 98>> >> }

\* a path that ends in a slash is a directory's
EndsInSlash(p) == Len(p) > 0 /\ p[Len(p)] = Slash

\* the files of a call: the first n paths of an order, with what happens on each
WalkFiles(results) ==
    { [i \in 1..n |-> WalkEntryOf(names[i], EndsInSlash(names[i]), rs[i])] :
        names \in WalkNames, n \in 0..MaxFiles, rs \in [1..MaxFiles -> results] }

\* pathsInArchive: nil, empty, {"a"}, {"a/"}, {"x", "a/b"}
WalkPaths ==
    { NilList, PathList(<<>>), PathList(<< <<97>> >>), PathList(<< <<97, 47>> >>),
      PathList(<< <<120>>, <<97, 47, 98>> >>) }

Walk(format, op, coe, files, paths) ==
    [on |-> TRUE, format |-> format, op |-> op, ContinueOnError |-> coe,
     files |-> files, paths |-> paths,
     pc |-> IF op = "Insert" THEN "scan" ELSE "top", i |-> 1,
     cancelled |-> FALSE, cancelAt |-> [pc |-> "none", i |-> 0],
     out |-> <<>>, begun |-> {}, skipDirs |-> <<>>, err |-> NoWalkErr]

\* the methods tar.go and zip.go define
WalkOps ==
    { <<"tar", "Archive">>, <<"tar", "ArchiveAsync">>, <<"tar", "Insert">>,
      <<"tar", "Extract">>, <<"zip", "Archive">>, <<"zip", "ArchiveAsync">>,
      <<"zip", "Extract">> }

WalkFrame == UNCHANGED <<rr, hist, id, afs, ca, sl, reg, fsy, par, df, late>>

InitWalk ==
    /\ \E fo \in WalkOps, coe \in BOOLEAN :
         \/ /\ fo[2] # "Extract"
            /\ \E files \in WalkFiles({"ok", "fail"}) :
                  wk = Walk(fo[1], fo[2], coe, files, NilList)
         \/ /\ fo[2] = "Extract"
            /\ \E files \in WalkFiles({"ok", "fail", "skip"}), paths \in WalkPaths :
                  /\ paths # NilList => \A i \in 1..Len(files) : files[i].res = "ok"
                  /\ wk = Walk(fo[1], fo[2], coe, files, paths)
    /\ rr = newRewindReader(Stream(<<>>, 0, "no", EOF))
    /\ hist = NoHist /\ id = NoId /\ afs = NoArchiveFS /\ ca = NoCompressedArchive
    /\ sl = Idle /\ reg = Idle /\ fsy = Idle /\ par = Idle /\ df = Idle
    /\ NoLate

\* the context is cancelled, by the handler or from another goroutine
Cancel ==
    /\ wk.on /\ wk.pc # "done" /\ ~wk.cancelled
    /\ wk' = [wk EXCEPT !.cancelled = TRUE, !.cancelAt = [pc |-> wk.pc, i |-> wk.i]]
    /\ WalkFrame

\* Tar.Insert reads the archive to its end to find where to write
Scan ==
    /\ wk.on /\ wk.pc = "scan"
    /\ wk' = [wk EXCEPT !.pc = "top"]
    /\ WalkFrame

\* the loop head and the context check of one iteration
Top ==
    /\ wk.on /\ wk.pc = "top"
    /\ wk' = WalkTop(wk)
    /\ WalkFrame

\* one file written, or not
Write ==
    /\ wk.on /\ wk.pc = "body" /\ wk.op # "Extract"
    /\ wk' = WalkWrite(wk)
    /\ WalkFrame

\* one entry read, and handed to the handler or not
ExtractEntry ==
    /\ wk.on /\ wk.pc = "body" /\ wk.op = "Extract"
    /\ wk' = WalkExtract(wk)
    /\ WalkFrame

NextWalk == Cancel \/ Scan \/ Top \/ Write \/ ExtractEntry

SpecWalk == InitWalk /\ [][NextWalk]_vars

----------------------------------------------------------------------------
\* Claims about the receiver of ArchiveFS.Sub.

\* the ArchiveFS as it was before the latest call
ReceiverBefore == [afs EXCEPT !.Prefix = afs.call.prefix]

\* Open, ReadDir and Stat of name give on f what they give on g
ResolvesAs(f, g, name) ==
    /\ ArchiveFSOpen(f, name) = ArchiveFSOpen(g, name)
    /\ ArchiveFSReadDir(f, name) = ArchiveFSReadDir(g, name)
    /\ ArchiveFSStat(f, name) = ArchiveFSStat(g, name)

\* C30: Sub returns a new view and leaves the ArchiveFS it was called on as
\* it was: after Sub(p), whether it succeeded or not, Open, ReadDir and Stat
\* on the original resolve every name as before.
SubLeavesReceiver ==
    (afs.on /\ afs.call.op = "Sub") =>
        \A name \in CallNames : ResolvesAs(afs, ReceiverBefore, name)

\* C30, the part that holds: a Sub that fails leaves the ArchiveFS as it was.
FailedSubLeavesReceiver ==
    (afs.on /\ afs.call.op = "Sub" /\ afs.call.res.err # Nil) =>
        /\ afs.Prefix = afs.call.prefix
        /\ \A name \in CallNames : ResolvesAs(afs, ReceiverBefore, name)

----------------------------------------------------------------------------
\* Claims about Archive, ArchiveAsync, Insert and Extract.

\* the names of the first n files of the call
NamesUpTo(n) == {wk.files[k].FileName : k \in 1..Min(n, Len(wk.files))}

\* the last file that was under way, or already dealt with, at the cancellation
LastBeforeCancel ==
    IF wk.cancelAt.pc = "body" THEN wk.cancelAt.i ELSE wk.cancelAt.i - 1

\* the context was cancelled before the call was through with its last entry
CancelledInTime == wk.on /\ wk.cancelled /\ wk.cancelAt.i <= Len(wk.files)

\* C21: once the context is cancelled, no further entry is written or handed
\* to the handler, and the call returns the cancellation error, with or
\* without ContinueOnError, also when the cancellation comes while the last
\* entry is under way.  (A call that ends on the failure of the entry that
\* was under way at the cancellation is let pass here.)
CancelledWalkStops ==
    CancelledInTime =>
        /\ \A k \in 1..Len(wk.out) : wk.out[k] \in NamesUpTo(LastBeforeCancel)
        /\ wk.pc = "done" =>
              \/ wk.err.cause = ErrCanceled
              \/ /\ wk.err.wrapped /\ wk.cancelAt.pc = "body"
                 /\ wk.err.entry = wk.files[wk.cancelAt.i].FileName

\* C21, the part that holds: no entry past the one under way at the
\* cancellation is written or handed to the handler.
CancelledWalkWritesNoMore ==
    CancelledInTime =>
        \A k \in 1..Len(wk.out) : wk.out[k] \in NamesUpTo(LastBeforeCancel)

\* the entries whose iteration the call began
Begun == {b.i : b \in wk.begun} \cap 1..Len(wk.files)

\* the entries on which writing, or the handler, fails
Failing == {k \in 1..Len(wk.files) : wk.files[k].res = "fail"}

\* a finished call without cancellation, selection of paths or fs.SkipDir
PlainWalkDone ==
    /\ wk.on /\ wk.pc = "done" /\ ~wk.cancelled /\ wk.paths = NilList
    /\ \A k \in 1..Len(wk.files) : wk.files[k].res # "skip"

\* the first failing entry
FirstFailing == CHOOSE k \in Failing : \A j \in Failing : k <= j

\* C22: with ContinueOnError set and no cancellation, a failing entry is
\* skipped alone and every other entry is still processed; with it unset the
\* first failing entry ends the call with an error that names it.  For tar
\* and for zip.
ContinueOnErrorSkipsOnlyFailing ==
    PlainWalkDone =>
        IF wk.ContinueOnError
        THEN /\ wk.err = NoWalkErr
             /\ Begun = 1..Len(wk.files)
             /\ \A k \in 1..Len(wk.files) \ Failing :
                   \E j \in 1..Len(wk.out) : wk.out[j] = wk.files[k].FileName
        ELSE Failing # {} =>
                /\ wk.err = EntryErr(wk.files[FirstFailing].FileName, ErrEntry)
                /\ Begun = 1..FirstFailing

\* C22, the methods that do as stated: Archive, ArchiveAsync and Insert of
\* tar, ArchiveAsync and Extract of zip.
ContinueOnErrorHonoured ==
    (~(wk.format = "tar" /\ wk.op = "Extract") /\ ~(wk.format = "zip" /\ wk.op = "Archive"))
        => ContinueOnErrorSkipsOnlyFailing

\* entry k was handed to the handler (the paths of an archive are distinct)
Handed(k) == \E m \in 1..Len(wk.out) : wk.out[m] = wk.files[k].FileName

\* name lies in the directory of entry e, or beneath e when e is a directory
InSkippedDirectory(e, name) ==
    IF e.dir
    THEN name = e.FileName \/ StrHasPrefix(name, TrimSuffixSlash(e.FileName) \o <<Slash>>)
    ELSE \/ pathDir(e.FileName) = <<46>>
         \/ StrHasPrefix(name, pathDir(e.FileName) \o <<Slash>>)

\* the handler returned fs.SkipDir for an entry before k whose directory holds
\* entry k
SkippedBefore(k) ==
    \E s \in 1..(k - 1) :
        /\ wk.files[s].res = "skip" /\ Handed(s)
        /\ InSkippedDirectory(wk.files[s], wk.files[k].FileName)

\* an Extract of every entry, without cancellation or a failing handler
SkipDirWalk ==
    /\ wk.on /\ wk.op = "Extract" /\ ~wk.cancelled /\ wk.paths = NilList
    /\ Failing = {}

\* C23: once the handler returned fs.SkipDir for an entry, Extract passes no
\* later entry of that entry's directory (or beneath the entry, when it is a
\* directory), also for an entry at the root of the archive; the entries
\* outside are still passed and Extract does not fail.
SkipDirSkipsDirectory ==
    SkipDirWalk =>
        /\ \A k \in 1..Len(wk.files) : SkippedBefore(k) => ~Handed(k)
        /\ wk.pc = "done" =>
              /\ wk.err = NoWalkErr
              /\ \A k \in 1..Len(wk.files) : ~SkippedBefore(k) => Handed(k)

\* no fs.SkipDir came for a file at the root of the archive
NoSkipAtRoot ==
    \A k \in 1..Len(wk.files) :
        wk.files[k].res = "skip" =>
            wk.files[k].dir \/ pathDir(wk.files[k].FileName) # <<46>>

\* C23, the part that holds: the same for every fs.SkipDir but the one on a
\* file at the root of the archive.
SkipDirSkipsNestedDirectory == NoSkipAtRoot => SkipDirSkipsDirectory

\* name is selected by the listed path p: it is p, or it goes on after p,
\* taken without its trailing slash, with a slash
SelectedBy(p, name) ==
    \/ name = p
    \/ LET d == IF Len(p) > 0 /\ p[Len(p)] = Slash THEN SubSeq(p, 1, Len(p) - 1) ELSE p
       IN  /\ Len(name) > Len(d)
           /\ SubSeq(name, 1, Len(d)) = d
           /\ name[Len(d) + 1] = Slash

\* entry k is selected by pathsInArchive
Selected(k) ==
    \/ wk.paths.nil
    \/ \E m \in 1..Len(wk.paths.list) : SelectedBy(wk.paths.list[m], wk.files[k].FileName)

\* the names of the selected entries among files, in their order
RECURSIVE SelectedNames(_)
SelectedNames(k) ==
    IF k > Len(wk.files) THEN <<>>
    ELSE IF Selected(k) THEN <<wk.files[k].FileName>> \o SelectedNames(k + 1)
    ELSE SelectedNames(k + 1)

\* an Extract whose handler returns nil on every entry, without cancellation
SelectingWalk ==
    /\ wk.on /\ wk.op = "Extract" /\ ~wk.cancelled
    /\ \A k \in 1..Len(wk.files) : wk.files[k].res = "ok"

----------------------------------------------------------------------------
\* skipList: the calls of add on one list.

\* most calls of add on a list
MaxAdds == 4

\* the directories added: "a", "a/", "a/b", "a/b/", "a/b/c", "a/c/", "ab", "b/"
SkipDirs ==
    { <<97>>, <<97, 47>>, <<97, 47, 98>>, <<97, 47, 98, 47>>,
      <<97, 47, 98, 47, 99>>, <<97, 47, 99, 47>>, <<97, 98>>, <<98, 47>> }

InitSkipList ==
    /\ sl = [on |-> TRUE, list |-> <<>>, n |-> 0, dir |-> <<>>, before |-> <<>>]
    /\ rr = newRewindReader(Stream(<<>>, 0, "no", EOF))
    /\ hist = NoHist /\ id = NoId /\ afs = NoArchiveFS /\ ca = NoCompressedArchive
    /\ wk = Idle /\ reg = Idle /\ fsy = Idle /\ par = Idle /\ df = Idle
    /\ NoLate

\* s.add(dir)
Add ==
    /\ sl.on /\ sl.n < MaxAdds
    /\ \E dir \in SkipDirs :
          sl' = [sl EXCEPT !.list = skipListAdd(@, dir), !.n = @ + 1,
                           !.dir = dir, !.before = sl.list]
    /\ UNCHANGED <<rr, hist, id, afs, ca, wk, reg, fsy, par, df, late>>

NextSkipList == Add

SpecSkipList == InitSkipList /\ [][NextSkipList]_vars

\* Claims about skipList.

\* p without its trailing slash
NoTrailingSlash(p) ==
    IF Len(p) > 0 /\ p[Len(p)] = Slash THEN SubSeq(p, 1, Len(p) - 1) ELSE p

\* a and b are the same path, trailing slashes ignored
SamePath(a, b) == NoTrailingSlash(a) = NoTrailingSlash(b)

\* a is an ancestor of b: b goes on after a with a slash
IsAncestor(a, b) ==
    LET ta == NoTrailingSlash(a)
        tb == NoTrailingSlash(b)
    IN  /\ Len(ta) < Len(tb)
        /\ SubSeq(tb, 1, Len(ta)) = ta
        /\ tb[Len(ta) + 1] = Slash

\* the paths of list that dir is no ancestor of, in their order
RECURSIVE NotBeneath(_, _)
NotBeneath(list, dir) ==
    IF list = <<>> THEN <<>>
    ELSE IF IsAncestor(dir, Head(list)) THEN NotBeneath(Tail(list), dir)
    ELSE <<Head(list)>> \o NotBeneath(Tail(list), dir)

\* dir equals a path of list or lies beneath one
Covered(list, dir) ==
    \E i \in 1..Len(list) : SamePath(list[i], dir) \/ IsAncestor(list[i], dir)

\* C24: after any calls of add from the empty list, no path of the list
\* equals another or is an ancestor of another, trailing slashes ignored;
\* adding a path that equals a listed path or lies beneath one leaves the
\* list as it was, and adding any other path removes every listed path it is
\* an ancestor of and appends it.
SkipListHoldsNoTwoIntersecting ==
    sl.on =>
        /\ \A i, j \in 1..Len(sl.list) :
              i # j => ~SamePath(sl.list[i], sl.list[j])
                       /\ ~IsAncestor(sl.list[i], sl.list[j])
        /\ sl.n > 0 =>
              IF Covered(sl.before, sl.dir)
              THEN sl.list = sl.before
              ELSE sl.list = Append(NotBeneath(sl.before, sl.dir), sl.dir)

\* "a" was added to the list of "a/b/" and "a/c/", which is now the list of "a"
AncestorReplacedTwo ==
    /\ sl.on /\ sl.n > 0
    /\ sl.before = << <<97, 47, 98, 47>>, <<97, 47, 99, 47>> >>
    /\ sl.dir = <<97>>
    /\ sl.list = << <<97>> >>

----------------------------------------------------------------------------
\* RegisterFormat: the calls that fill the formats map.

\* strings.Trim(s, ".")
RECURSIVE TrimDots(_)
TrimDots(str) ==
    IF str = <<>> THEN str
    ELSE IF Head(str) = 46 THEN TrimDots(Tail(str))
    ELSE IF str[Len(str)] = 46 THEN TrimDots(SubSeq(str, 1, Len(str) - 1))
    ELSE str

\* the key of a format: strings.Trim(strings.ToLower(format.Name()), ".")
FormatKey(format) == TrimDots(ToLower(format.Name))

\* formats[name] = format, with no look at what the map holds
RegisterFormatOver(registry, format) ==
    [registry |-> (FormatKey(format) :> format) @@ registry, panic |-> FALSE]

\* RegisterFormat(format) on the map registry: the map after the call, and
\* whether the call panicked
RegisterFormat(registry, format) ==
    IF FormatKey(format) \in DOMAIN registry
    THEN [registry |-> registry, panic |-> TRUE]
    ELSE [registry |-> (FormatKey(format) :> format) @@ registry, panic |-> FALSE]

\* make(map[string]Format)
EmptyRegistry == [k \in {} |-> NoFormat]

\* the formats registered: types with the names
\* ".gz", "GZ", ".tar", "..tar.", ".zip", ".tar.gz"
RegisteredFormats ==
    { [type |-> "Gz", Name |-> <<46, 103, 122>>],
      [type |-> "GzUpper", Name |-> <<71, 90>>],
      [type |-> "Tar", Name |-> <<46, 116, 97, 114>>],
      [type |-> "TarDots", Name |-> <<46, 46, 116, 97, 114, 46>>],
      [type |-> "Zip", Name |-> <<46, 122, 105, 112>>],
      [type |-> "TarGz", Name |-> <<46, 116, 97, 114, 46, 103, 122>>] }

InitRegister ==
    /\ reg = [on |-> TRUE, formats |-> EmptyRegistry, called |-> FALSE,
              format |-> NoFormat, panic |-> FALSE, before |-> EmptyRegistry]
    /\ rr = newRewindReader(Stream(<<>>, 0, "no", EOF))
    /\ hist = NoHist /\ id = NoId /\ afs = NoArchiveFS /\ ca = NoCompressedArchive
    /\ wk = Idle /\ sl = Idle /\ fsy = Idle /\ par = Idle /\ df = Idle
    /\ NoLate

\* an init() calls RegisterFormat(format); a panic is recovered from
Register ==
    /\ reg.on
    /\ \E format \in RegisteredFormats :
          LET After(res) ==
                  [reg EXCEPT !.formats = res.registry, !.called = TRUE,
                              !.format = format, !.panic = res.panic,
                              !.before = reg.formats]
          IN  reg' = After(RegisterFormat(reg.formats, format))
    /\ UNCHANGED <<rr, hist, id, afs, ca, wk, sl, fsy, par, df, late>>

NextRegister == Register

SpecRegister == InitRegister /\ [][NextRegister]_vars

\* Claims about RegisterFormat.

\* the names as the registry keeps them
NormalizedNames ==
    { <<103, 122>>, <<116, 97, 114>>, <<122, 105, 112>>,
      <<116, 97, 114, 46, 103, 122>> }

\* C26: after any calls of RegisterFormat the registry holds at most one
\* format for a normalized name (lowercased, without the dots around it);
\* registering a name the registry holds panics and leaves the registry as
\* it was; no registered format is ever removed or replaced.
RegistryKeepsFirstOfName ==
    reg.on =>
        /\ DOMAIN reg.formats \subseteq NormalizedNames
        /\ \A k \in DOMAIN reg.formats : FormatKey(reg.formats[k]) = k
        /\ \A k \in DOMAIN reg.before :
              k \in DOMAIN reg.formats /\ reg.formats[k] = reg.before[k]
        /\ reg.called =>
              IF \E k \in DOMAIN reg.before :
                    FormatKey(reg.before[k]) = FormatKey(reg.format)
              THEN reg.panic /\ reg.formats = reg.before
              ELSE /\ ~reg.panic
                   /\ DOMAIN reg.formats = DOMAIN reg.before \cup {FormatKey(reg.format)}
                   /\ reg.formats[FormatKey(reg.format)] = reg.format

\* the format named "GZ" was registered after the one named ".gz": the call
\* panicked and "gz" is still the first format
SecondGzPanicked ==
    /\ reg.on /\ reg.called /\ reg.panic
    /\ reg.format.type = "GzUpper"
    /\ <<103, 122>> \in DOMAIN reg.formats
    /\ reg.formats[<<103, 122>>].type = "Gz"

----------------------------------------------------------------------------
\* FileSystem(ctx, root).  fsy holds the call:
\*   pc      "stat" (called), "identify" (Identify is running on the opened
\*           file), "done" (returned)
\*   kind    what root is: "missing", "dir" or "file"
\*   base    filepath.Base(root), and file, the contents of root
\*   fs, Compression, err    the file system returned, its Compression
\*                           field, and the error returned

\* an error value as the pointer it is: the value, and where it was made
ErrorAt(err, site) == [err |-> err, at |-> site]

\* errors.Is taken as a comparison of the messages
errorsIsByMessage(err, target) == err.err.msg = target.err.msg

\* errors.Is(err, target) for a target that is in no chain of err but as
\* itself: errors made by errors.New and fmt.Errorf are pointers, and two
\* of them are equal when they are the same value
errorsIs(err, target) == err = target

\* errors.New("no formats matched") in FileSystem
NewNoFormatsMatched == ErrorAt(ErrNoMatch, "FileSystem")

\* FileSystem from the return of Identify on
FileSystemOf(format, err) ==
    IF err # NoError /\ ~errorsIs(ErrorAt(err, "Identify"), NewNoFormatsMatched)
    THEN [fs |-> "nil", Compression |-> NoFormat, err |-> err]
    ELSE CASE format.type = "Archival" /\ format.Archival = "zip" ->
                [fs |-> "zip.Reader", Compression |-> NoFormat, err |-> NoError]
           [] format.type = "Archival" /\ format.Archival # "zip" ->
                [fs |-> "ArchiveFS", Compression |-> NoFormat, err |-> NoError]
           [] format.type = "CompressedArchive" ->
                [fs |-> "ArchiveFS", Compression |-> NoFormat, err |-> NoError]
           [] format.type = "Compression" ->
                [fs |-> "FileFS", Compression |-> format.Compression, err |-> NoError]
           [] OTHER ->
                [fs |-> "FileFS", Compression |-> NoFormat, err |-> NoError]

\* os.Stat fails on a missing root
ErrStat == [msg |-> "stat: no such file or directory", name |-> "", wraps |-> Nil]

\* what root is
RootKinds == {"missing", "dir", "file"}

InitFileSystem ==
    /\ \E kind \in RootKinds, fn \in Filenames \ {NoFilename}, d \in NamedContents :
         /\ kind # "file" => d = <<>>
         /\ fsy = [on |-> TRUE, pc |-> "stat", kind |-> kind, base |-> fn,
                   file |-> Stream(d, 0, "yes", EOF),
                   fs |-> "nil", Compression |-> NoFormat, err |-> NoError]
    /\ rr = newRewindReader(Stream(<<>>, 0, "no", EOF))
    /\ hist = NoHist /\ id = NoId /\ afs = NoArchiveFS /\ ca = NoCompressedArchive
    /\ wk = Idle /\ sl = Idle /\ reg = Idle /\ par = Idle /\ df = Idle
    /\ NoLate

\* os.Stat(root), DirFS(root) for a directory, os.Open(root) and the call of
\* Identify(filepath.Base(root), file)
StatRoot ==
    /\ fsy.on /\ fsy.pc = "stat"
    /\ CASE fsy.kind = "missing" ->
              /\ fsy' = [fsy EXCEPT !.pc = "done", !.err = ErrStat]
              /\ UNCHANGED <<rr, id>>
         [] fsy.kind = "dir" ->
              /\ fsy' = [fsy EXCEPT !.pc = "done", !.fs = "DirFS"]
              /\ UNCHANGED <<rr, id>>
         [] fsy.kind = "file" ->
              /\ fsy' = [fsy EXCEPT !.pc = "identify"]
              /\ rr' = newRewindReader(fsy.file)
              /\ id' = [pc |-> "pass1", filename |-> fsy.base, probed |-> {},
                        compression |-> NoFormat, archival |-> NoFormat,
                        format |-> NilFormat, err |-> NoError, out |-> <<>>,
                        last |-> NoProbe]
    /\ UNCHANGED <<hist, afs, ca, wk, sl, reg, par, df, late>>

\* Identify has returned: the test of its error and the switch on its format
ReturnFileSystem ==
    /\ fsy.on /\ fsy.pc = "identify" /\ id.pc = "done"
    /\ LET After(res) ==
               [fsy EXCEPT !.pc = "done", !.fs = res.fs,
                           !.Compression = res.Compression, !.err = res.err]
       IN  fsy' = After(FileSystemOf(id.format, id.err))
    /\ UNCHANGED <<rr, hist, id, afs, ca, wk, sl, reg, par, df, late>>

NextFileSystem ==
    StatRoot \/ ProbeCompression \/ ProbeArchival \/ Resolve \/ ReturnFileSystem

SpecFileSystem == InitFileSystem /\ [][NextFileSystem]_vars

\* Claims about FileSystem.

\* C27: the no-match outcome of Identify is told apart from every other
\* failure, so that FileSystem on a regular file that no format recognizes
\* returns a FileFS of that one file, without Compression, and no error.
UnrecognizedFileIsFileFS ==
    (fsy.on /\ fsy.pc = "done" /\ fsy.kind = "file"
        /\ id.format = NilFormat /\ id.err = ErrNoMatch) =>
        /\ fsy.fs = "FileFS" /\ fsy.Compression = NoFormat
        /\ fsy.err = NoError

\* C27, the part that holds: a file a format recognizes gets the file system
\* of that format, and FileSystem fails when Identify fails.
RecognizedFileIsServed ==
    (fsy.on /\ fsy.pc = "done" /\ fsy.kind = "file") =>
        /\ id.err # NoError => fsy.fs = "nil" /\ fsy.err = id.err
        /\ id.err = NoError =>
              /\ fsy.err = NoError
              /\ fsy.fs \in {"zip.Reader", "ArchiveFS", "FileFS"}
              /\ fsy.fs = "FileFS" <=> id.format.type = "Compression"

----------------------------------------------------------------------------
\* An ArchiveFS with Stream set, called from two goroutines.  par holds:
\*   stream    the entries of the archive, as f.Stream keeps them
\*   off       the offset of each reader: 0 is f.Stream itself, g the
\*             section reader made by the call of goroutine g
\*   calls     for each goroutine its call: op and name, pc ("idle",
\*             "reading", "done"), rd (the reader it reads through), got (the
\*             entries Extract has read for it) and res (what it returned)
\*   interleaved   whether a call read while the other was amid its reading

Goroutines == {1, 2}

\* reading through f.Stream itself, with its one offset
UseStream(g) == 0

\* io.NewSectionReader(f.Stream, 0, f.Stream.Size()) in the call of goroutine
\* g: a reader of its own
NewSectionReader(g) == g

\* the archives behind the stream: "a/b/c", "a/d", "x"; "x", "a/", "a/d";
\* "1/1", "1/2", "2/1"
StreamArchives ==
    { << ArchiveFile(<<97, 47, 98, 47, 99>>, FALSE), ArchiveFile(<<97, 47, 100>>, FALSE),
         ArchiveFile(<<120>>, FALSE) >>,
      << ArchiveFile(<<120>>, FALSE), ArchiveFile(<<97, 47>>, TRUE),
         ArchiveFile(<<97, 47, 100>>, FALSE) >>,
      << ArchiveFile(<<49, 47, 49>>, FALSE), ArchiveFile(<<49, 47, 50>>, FALSE),
         ArchiveFile(<<50, 47, 49>>, FALSE) >> }

\* the names of the calls: ".", "a", "a/d", "x", "1", "zz", and the invalid "a/"
StreamNames ==
    { DotPath, <<97>>, <<97, 47, 100>>, <<120>>, <<49>>, <<122, 122>>, <<97, 47>> }

\* the ArchiveFS over the entries ar
StreamFS(ar) == [on |-> TRUE, archive |-> ar, Prefix |-> <<>>, call |-> NoCall]

\* what op(name) returns from the entries ar
ResultOf(op, name, ar) ==
    CASE op = "Open" ->
           LET R(r) == CallResult(r.err, r.kind, r.info, r.entries)
           IN  R(ArchiveFSOpen(StreamFS(ar), name))
      [] op = "ReadDir" ->
           LET R(r) == CallResult(r.err, "none", NoInfo, r.entries)
           IN  R(ArchiveFSReadDir(StreamFS(ar), name))
      [] op = "Stat" ->
           LET R(r) == CallResult(r.err, "none", r.info, <<>>)
           IN  R(ArchiveFSStat(StreamFS(ar), name))

\* the handler of op(name) has stopped the walk over the entries read
WalkStopped(op, name, got) ==
    /\ name # DotPath
    /\ \/ op = "Open" /\ Extract(got, PathList(<<name>>), name, FALSE, <<>>).found
       \/ op = "Stat" /\ Extract(got, PathList(<<name>>), name, TRUE, <<>>).found

\* the call returns without Extract: an invalid name, or Stat(".")
ReturnsUnread(op, name) == ~ValidPath(name) \/ (op = "Stat" /\ name = DotPath)

IdleCall == [op |-> "none", name |-> <<>>, pc |-> "idle", rd |-> 0, got |-> <<>>,
             res |-> CallResult(Nil, "none", NoInfo, <<>>)]

InitStream ==
    /\ \E ar \in StreamArchives :
         par = [on |-> TRUE, stream |-> ar, off |-> [r \in {0} \cup Goroutines |-> 0],
                calls |-> [g \in Goroutines |-> IdleCall], interleaved |-> FALSE]
    /\ rr = newRewindReader(Stream(<<>>, 0, "no", EOF))
    /\ hist = NoHist /\ id = NoId /\ afs = NoArchiveFS /\ ca = NoCompressedArchive
    /\ wk = Idle /\ sl = Idle /\ reg = Idle /\ fsy = Idle /\ df = Idle
    /\ NoLate

StreamFrame == UNCHANGED <<rr, hist, id, afs, ca, wk, sl, reg, fsy, df, late>>

\* a goroutine calls Open, ReadDir or Stat: up to the section reader the
\* call makes for Extract
StartCall ==
    /\ par.on
    /\ \E g \in Goroutines, op \in {"Open", "ReadDir", "Stat"}, name \in StreamNames :
         /\ par.calls[g].pc = "idle"
         /\ IF ReturnsUnread(op, name)
            THEN par' = [par EXCEPT !.calls[g] =
                            [op |-> op, name |-> name, pc |-> "done", rd |-> 0,
                             got |-> <<>>, res |-> ResultOf(op, name, <<>>)]]
            ELSE \E rd \in {NewSectionReader(g)} :
                   par' = [par EXCEPT !.off[rd] = 0,
                                      !.calls[g] =
                                         [op |-> op, name |-> name, pc |-> "reading",
                                          rd |-> rd, got |-> <<>>,
                                          res |-> CallResult(Nil, "none", NoInfo, <<>>)]]
    /\ StreamFrame

\* Extract reads the next entry for a call through the call's reader, or
\* finds the end of the stream; the call returns when the walk is over
ReadEntry ==
    /\ par.on
    /\ \E g \in Goroutines :
         LET c == par.calls[g]
             o == par.off[c.rd]
             mixed == \E h \in Goroutines \ {g} :
                         par.calls[h].pc = "reading" /\ par.calls[h].got # <<>>
             Done(got) == [c EXCEPT !.pc = "done", !.got = got,
                                    !.res = ResultOf(c.op, c.name, got)]
             Walked(got) == IF WalkStopped(c.op, c.name, got)
                          THEN Done(got) ELSE [c EXCEPT !.got = got]
         IN  /\ c.pc = "reading"
             /\ IF o >= Len(par.stream)
                THEN par' = [par EXCEPT !.calls[g] = Done(c.got),
                                        !.interleaved = @ \/ mixed]
                ELSE par' = [par EXCEPT !.calls[g] = Walked(Append(c.got, par.stream[o + 1])),
                                        !.off[c.rd] = o + 1,
                                        !.interleaved = @ \/ mixed]
    /\ StreamFrame

NextStream == StartCall \/ ReadEntry

SpecStream == InitStream /\ [][NextStream]_vars

\* Claims about the ArchiveFS on a stream.

\* C28: on an ArchiveFS with Stream set, every Open, ReadDir and Stat reads
\* through a section reader of its own, made for the call at offset 0, so the
\* interleaved calls of several goroutines each return what the call returns
\* when it runs alone.
InterleavedCallsReturnAsAlone ==
    par.on =>
        \A g \in Goroutines :
            /\ par.calls[g].pc = "reading" =>
                  /\ \A h \in Goroutines \ {g} :
                        par.calls[h].pc = "reading" => par.calls[h].rd # par.calls[g].rd
                  /\ par.calls[g].got = SubSeq(par.stream, 1, par.off[par.calls[g].rd])
            /\ par.calls[g].pc = "done" =>
                  par.calls[g].res =
                      ResultOf(par.calls[g].op, par.calls[g].name, par.stream)

\* ReadDir("a") and Open("a/d") ran interleaved on the archive of "a/b/c",
\* "a/d", "x", and both have returned without error
BothReturnedInterleaved ==
    /\ par.on /\ par.interleaved
    /\ par.stream[1].FileName = <<97, 47, 98, 47, 99>>
    /\ par.calls[1].pc = "done" /\ par.calls[1].op = "ReadDir"
    /\ par.calls[1].name = <<97>> /\ par.calls[1].res.err = Nil
    /\ Len(par.calls[1].res.entries) = 2
    /\ par.calls[2].pc = "done" /\ par.calls[2].op = "Open"
    /\ par.calls[2].name = <<97, 47, 100>> /\ par.calls[2].res.err = Nil

----------------------------------------------------------------------------
\* A dirFile and the calls of its ReadDir.  df holds entries and entriesRead,
\* and of the calls: how many there were, the n of the latest, entriesRead
\* before it, what it returned, and all that the calls with n > 0 returned.

\* most entries of a directory, the largest n, and most calls of ReadDir
MaxDirEntries == 4
MaxChunk == 3
MaxReads == 5

\* the directories: the entries "a", "b", ... in this order
DirListings == { [i \in 1..k |-> <<96 + i>>] : k \in 0..MaxDirEntries }

InitDirFile ==
    /\ \E es \in DirListings :
         df = [on |-> TRUE, entries |-> es, entriesRead |-> 0, calls |-> 0,
               n |-> 0, before |-> 0, ret |-> <<>>, err |-> Nil, handed |-> <<>>]
    /\ rr = newRewindReader(Stream(<<>>, 0, "no", EOF))
    /\ hist = NoHist /\ id = NoId /\ afs = NoArchiveFS /\ ca = NoCompressedArchive
    /\ wk = Idle /\ sl = Idle /\ reg = Idle /\ fsy = Idle /\ par = Idle
    /\ NoLate

\* df.ReadDir(n)
CallDirFileReadDir ==
    /\ df.on /\ df.calls < MaxReads
    /\ \E n \in -1..MaxChunk :
          LET After(r) ==
                  [df EXCEPT !.entriesRead = r.entriesRead, !.calls = @ + 1,
                             !.n = n, !.before = df.entriesRead,
                             !.ret = r.entries, !.err = r.err,
                             !.handed = IF n > 0 THEN @ \o r.entries ELSE @]
          IN  df' = After(dirFileReadDir(df.entries, df.entriesRead, n))
    /\ UNCHANGED <<rr, hist, id, afs, ca, wk, sl, reg, fsy, par, late>>

NextDirFile == CallDirFileReadDir

SpecDirFile == InitDirFile /\ [][NextDirFile]_vars

\* Claims about dirFile.ReadDir.

\* C29: the calls ReadDir(n) with n > 0 return consecutive chunks of at
\* most n entries that do not overlap and cover the entries in order, each
\* once, and then io.EOF with no entries; the cursor stays within
\* 0..len(entries); ReadDir(n) with n <= 0 returns all entries and no error.
ReadDirPagesInOrder ==
    df.on =>
        /\ df.entriesRead \in 0..Len(df.entries)
        /\ df.handed = SubSeq(df.entries, 1, df.entriesRead)
        /\ (df.calls > 0 /\ df.n > 0 /\ df.before < Len(df.entries)) =>
              /\ df.err = Nil
              /\ Len(df.ret) \in 1..df.n
              /\ df.ret = SubSeq(df.entries, df.before + 1, df.before + Len(df.ret))
              /\ df.entriesRead = df.before + Len(df.ret)
              /\ Len(df.ret) < df.n => df.entriesRead = Len(df.entries)
        /\ (df.calls > 0 /\ df.n > 0 /\ df.before >= Len(df.entries)) =>
              df.err = "EOF" /\ df.ret = <<>> /\ df.entriesRead = df.before
        /\ (df.calls > 0 /\ df.n <= 0) =>
              df.err = Nil /\ df.ret = df.entries /\ df.entriesRead = df.before

\* three entries were read in chunks of two: two entries, one entry, io.EOF
PagedToEOF ==
    /\ df.on /\ Len(df.entries) = 3 /\ df.calls = 3
    /\ df.n = 2 /\ df.err = "EOF" /\ df.ret = <<>>
    /\ df.handed = df.entries

----------------------------------------------------------------------------
\* ArchiveFS.Open with the file handles it opens.  opn holds:
\*   backing   "path" (Path is set) or "stream" (Stream is set)
\*   format    the Format of the ArchiveFS: "tar" or "zip"
\*   archive, name     the entries of the archive, and the name opened
\*   pc        "call", "opened" (past os.Open), "returned", "failed" (an
\*             error returned), "panicked", "closed" (the file returned was
\*             closed by the caller)
\*   handles   the archive file handles opened so far: 1 is the archiveFile
\*             of Open, 2 the archiveFile of the ReadDir it calls
\*   source    what Extract was given: "none" (not called), "nil", "file"
\*             or "section"
\*   kind, parent, err   the file returned, whether its parentArchive is
\*                       set, and the error returned

\* Zip.Extract on a source that is no io.ReaderAt and io.Seeker
ErrInputType == "input type must be an io.ReaderAt and io.Seeker"

\* inputStream at the call of Extract in Open: declared as the named result
\* archiveFile, which is nil then, and assigned again only for a Stream
OpenInputStream(backing) == IF backing = "stream" THEN "section" ELSE "nil"

\* inputStream at the call of Extract in ReadDir and Stat
StatInputStream(backing) == IF backing = "stream" THEN "section" ELSE "file"

\* Format.Extract over a nil reader: tar.Reader calls Read on the nil
\* interface, Zip.Extract fails its type assertion
ExtractFromNil(format) == IF format = "tar" THEN Panic ELSE ErrInputType

OpenBackings == {"path", "stream"}
OpenFormats == {"tar", "zip"}

InitOpen ==
    /\ \E b \in OpenBackings, fm \in OpenFormats, ar \in StreamArchives, name \in StreamNames :
         opn = [on |-> TRUE, backing |-> b, format |-> fm, archive |-> ar,
                name |-> name, pc |-> "call", handles |-> <<>>, source |-> "none",
                kind |-> "none", parent |-> FALSE, err |-> Nil]
    /\ rr = newRewindReader(Stream(<<>>, 0, "no", EOF))
    /\ hist = NoHist /\ id = NoId /\ afs = NoArchiveFS /\ ca = NoCompressedArchive
    /\ wk = Idle /\ sl = Idle /\ reg = Idle /\ fsy = Idle /\ par = Idle /\ df = Idle
    /\ zx = Idle /\ tx = Idle /\ arc = Idle /\ ins = Idle

OpenFrame ==
    UNCHANGED <<rr, hist, id, afs, ca, wk, sl, reg, fsy, par, df, zx, tx, arc, ins>>

\* Open up to os.Open(f.Path): the check of the name, and the handle
BeginOpen ==
    /\ opn.on /\ opn.pc = "call"
    /\ opn' = IF ~ValidPath(opn.name)
              THEN [opn EXCEPT !.pc = "failed", !.err = ErrInvalid]
              ELSE IF opn.backing = "path"
              THEN [opn EXCEPT !.pc = "opened", !.handles = <<"open">>]
              ELSE [opn EXCEPT !.pc = "opened"]
    /\ OpenFrame

\* the deferred func of Open: archiveFile.Close() if err != nil
DeferredClose(o) ==
    IF o.backing = "path" /\ o.err # Nil
    THEN [o EXCEPT !.handles[1] = "closed"]
    ELSE o

\* the rest of Open: the root, or Extract and what is made of its files
FinishOpen ==
    /\ opn.on /\ opn.pc = "opened"
    /\ LET Root(rd) ==
               \* f.ReadDir(".") opens a handle of its own and closes it
               LET o == IF opn.backing = "path"
                        THEN [opn EXCEPT !.handles = Append(@, "closed")] ELSE opn
               IN  IF rd.err # Nil
                   THEN DeferredClose([o EXCEPT !.pc = "failed", !.err = rd.err])
                   ELSE [o EXCEPT !.pc = "returned", !.kind = "dir", !.parent = FALSE]
           Extracted(src, r) ==
               IF r.err # Nil
               THEN DeferredClose([opn EXCEPT !.pc = "failed", !.source = src, !.err = r.err])
               ELSE [opn EXCEPT !.pc = "returned", !.source = src, !.kind = r.kind,
                                !.parent = (r.kind = "file")]
           Driven(src) ==
               IF src = "nil"
               THEN IF ExtractFromNil(opn.format) = Panic
                    THEN [opn EXCEPT !.pc = "panicked", !.source = src]
                    ELSE DeferredClose([opn EXCEPT !.pc = "failed", !.source = src,
                                                   !.err = ExtractFromNil(opn.format)])
               ELSE Extracted(src, ArchiveFSOpen(StreamFS(opn.archive), opn.name))
       IN  opn' = IF opn.name = DotPath
                  THEN Root(ArchiveFSReadDir(StreamFS(opn.archive), opn.name))
                  ELSE Driven(OpenInputStream(opn.backing))
    /\ OpenFrame

\* the caller closes the file Open returned: extractedFile.Close
CloseOpened ==
    /\ opn.on /\ opn.pc = "returned"
    /\ opn' = IF opn.parent /\ opn.backing = "path"
              THEN [opn EXCEPT !.pc = "closed", !.handles[1] = "closed"]
              ELSE [opn EXCEPT !.pc = "closed"]
    /\ OpenFrame

NextOpen == BeginOpen \/ FinishOpen \/ CloseOpened

SpecOpen == InitOpen /\ [][NextOpen]_vars

\* Claims about ArchiveFS.Open.

\* Open has called Extract
DroveExtract == opn.on /\ opn.source # "none"

\* C31: when Open drives Extract, the source it passes is the archive it
\* has just opened, the disk file for a Path and a new section reader for a
\* Stream, never a nil reader; so Open finds the paths that Stat finds.
OpenPassesOpenedArchive ==
    DroveExtract =>
        /\ opn.source = StatInputStream(opn.backing)
        /\ opn.pc # "panicked"
        /\ ArchiveFSStat(StreamFS(opn.archive), opn.name).err = Nil => opn.err = Nil

\* C31, the part that holds: with a Stream, Open passes a section reader
\* and finds the paths that Stat finds.
OpenPassesSectionReader ==
    (DroveExtract /\ opn.backing = "stream") => OpenPassesOpenedArchive

\* C32: on an ArchiveFS with a Path, every archive file handle an Open has
\* opened is closed once the call has failed or the file it returned was
\* closed, be that file a regular file or a directory, the root included.
OpenLeavesNoHandle ==
    (opn.on /\ opn.backing = "path" /\ opn.pc \in {"failed", "closed"}) =>
        \A h \in 1..Len(opn.handles) : opn.handles[h] = "closed"

\* C32, the part that holds: an Open that returns an error has closed the
\* handles it opened.
FailedOpenLeavesNoHandle ==
    (opn.on /\ opn.backing = "path" /\ opn.pc = "failed") =>
        \A h \in 1..Len(opn.handles) : opn.handles[h] = "closed"

----------------------------------------------------------------------------
\* Extract of Zip and SevenZip with the Open functions of the Files it hands
\* out.  zx holds:
\*   format    "zip" or "7z"
\*   File      zr.File: the entries, each with its name and its content
\*   paths     pathsInArchive
\*   i         the index the range loop is at (1-based), pc "loop" or "done"
\*   f         the loop variable f: the index of the entry it holds (0 before
\*             the first iteration)
\*   kept      the Files the handler has kept, by the index of their entry
\*   calls     how many times the Open of a kept File was called
\*   opened    the latest such call: the File it was called on (by the index
\*             of its entry) and the content it opened

\* most entries of an archive, and most calls of Open on kept Files
MaxZipFiles == 3
MaxOpens == 2

\* Open: func() (io.ReadCloser, error) { return f.Open() } refers to the loop
\* variable f, one variable for the whole loop under go 1.19, and not to the
\* entry the File was made of
OpenTarget(own, f) == f

\* the entries: "a", "b/", "b/c", each with a content of its own
ZipEntries ==
    { [Name |-> <<97>>, content |-> 1], [Name |-> <<98, 47>>, content |-> 2],
      [Name |-> <<98, 47, 99>>, content |-> 3] }

ZipArchives ==
    { ar \in UNION {[1..n -> ZipEntries] : n \in 0..MaxZipFiles} :
         \A i, j \in 1..Len(ar) : ar[i] = ar[j] => i = j }

\* pathsInArchive: nil, {"b"}
ZipPaths == { NilList, PathList(<< <<98>> >>) }

InitZipExtract ==
    /\ \E fm \in {"zip", "7z"}, ar \in ZipArchives, paths \in ZipPaths :
         zx = [on |-> TRUE, format |-> fm, File |-> ar, paths |-> paths, pc |-> "loop",
               i |-> 1, f |-> 0, kept |-> <<>>, calls |-> 0,
               opened |-> [file |-> 0, content |-> 0]]
    /\ rr = newRewindReader(Stream(<<>>, 0, "no", EOF))
    /\ hist = NoHist /\ id = NoId /\ afs = NoArchiveFS /\ ca = NoCompressedArchive
    /\ wk = Idle /\ sl = Idle /\ reg = Idle /\ fsy = Idle /\ par = Idle /\ df = Idle
    /\ opn = Idle /\ tx = Idle /\ arc = Idle /\ ins = Idle

ZipFrame ==
    UNCHANGED <<rr, hist, id, afs, ca, wk, sl, reg, fsy, par, df, opn, tx, arc, ins>>

\* one iteration of for i, f := range zr.File: f is assigned, the entry is
\* filtered, a File is made of it and the handler keeps that File
IterateFile ==
    /\ zx.on /\ zx.pc = "loop" /\ zx.i <= Len(zx.File)
    /\ zx' = IF fileIsIncluded(zx.paths, zx.File[zx.i].Name)
             THEN [zx EXCEPT !.f = zx.i, !.i = @ + 1, !.kept = Append(@, zx.i)]
             ELSE [zx EXCEPT !.f = zx.i, !.i = @ + 1]
    /\ ZipFrame

\* the loop is over and Extract returns nil
ReturnExtract ==
    /\ zx.on /\ zx.pc = "loop" /\ zx.i > Len(zx.File)
    /\ zx' = [zx EXCEPT !.pc = "done"]
    /\ ZipFrame

\* the Open of a File the handler has kept is called
OpenKept ==
    /\ zx.on /\ zx.calls < MaxOpens
    /\ \E k \in 1..Len(zx.kept) :
         zx' = [zx EXCEPT !.calls = @ + 1,
                          !.opened = [file |-> zx.kept[k],
                                      content |-> zx.File[OpenTarget(zx.kept[k], zx.f)].content]]
    /\ ZipFrame

NextZipExtract == IterateFile \/ ReturnExtract \/ OpenKept

SpecZipExtract == InitZipExtract /\ [][NextZipExtract]_vars

\* Claims about the Files of Zip and SevenZip Extract.

\* C33: every File that Extract of Zip and 7z hands to the handler has an
\* Open of its own entry: called after Extract has gone on to later entries,
\* or after Extract has returned, it opens the content of that entry and not
\* that of the entry iterated last.
OpenOpensOwnEntry ==
    (zx.on /\ zx.calls > 0) => zx.opened.content = zx.File[zx.opened.file].content

\* C33, the part that holds: Open called while Extract is still at the
\* File's entry opens that entry.
OpenInHandlerOpensOwnEntry ==
    (zx.on /\ zx.calls > 0 /\ zx.opened.file = zx.f) =>
        zx.opened.content = zx.File[zx.opened.file].content

----------------------------------------------------------------------------
\* Tar.Extract over an archive whose headers may be broken.  tx holds:
\*   ContinueOnError   the field of the Tar
\*   entries   the archive: for each entry "ok", or "bad" for a header that
\*             tr.Next() fails on; after the last entry comes the end
\*   pos       the entries tr has gone past
\*   trErr     the error tr keeps: once Next() has failed, every later
\*             Next() returns that error again (archive/tar, Reader.Next)
\*   pc        "top" (at the context check), "next" (at tr.Next()), "done"
\*   cancelled, handled, err   whether ctx is cancelled, the entries handed
\*                             to the handler, and the error returned

\* most entries of an archive
MaxTarEntries == 3

\* tar.ErrHeader
ErrTarHeader == "archive/tar: invalid tar header"

\* tr.Next(): [hdr, err, pos, trErr]; hdr is the index of the entry read
TrNext(entries, pos, trErr) ==
    IF trErr # Nil
    THEN [hdr |-> 0, err |-> trErr, pos |-> pos, trErr |-> trErr]
    ELSE IF pos >= Len(entries)
    THEN [hdr |-> 0, err |-> EOF, pos |-> pos, trErr |-> EOF]
    ELSE IF entries[pos + 1] = "bad"
    THEN [hdr |-> 0, err |-> ErrTarHeader, pos |-> pos, trErr |-> ErrTarHeader]
    ELSE [hdr |-> pos + 1, err |-> Nil, pos |-> pos + 1, trErr |-> Nil]

TarArchives == UNION {[1..n -> {"ok", "bad"}] : n \in 0..MaxTarEntries}

InitTarExtract ==
    /\ \E coe \in BOOLEAN, ar \in TarArchives :
         tx = [on |-> TRUE, ContinueOnError |-> coe, entries |-> ar, pos |-> 0,
               trErr |-> Nil, pc |-> "top", cancelled |-> FALSE, handled |-> <<>>,
               err |-> Nil]
    /\ rr = newRewindReader(Stream(<<>>, 0, "no", EOF))
    /\ hist = NoHist /\ id = NoId /\ afs = NoArchiveFS /\ ca = NoCompressedArchive
    /\ wk = Idle /\ sl = Idle /\ reg = Idle /\ fsy = Idle /\ par = Idle /\ df = Idle
    /\ opn = Idle /\ zx = Idle /\ arc = Idle /\ ins = Idle

TarFrame ==
    UNCHANGED <<rr, hist, id, afs, ca, wk, sl, reg, fsy, par, df, opn, zx, arc, ins>>

\* the context is cancelled from outside
CancelExtract ==
    /\ tx.on /\ tx.pc # "done" /\ ~tx.cancelled
    /\ tx' = [tx EXCEPT !.cancelled = TRUE]
    /\ TarFrame

\* if err := ctx.Err(); err != nil { return err }
CheckContext ==
    /\ tx.on /\ tx.pc = "top"
    /\ tx' = IF tx.cancelled
             THEN [tx EXCEPT !.pc = "done", !.err = ErrCanceled]
             ELSE [tx EXCEPT !.pc = "next"]
    /\ TarFrame

\* hdr, err := tr.Next() and the rest of the iteration
AdvanceEntry ==
    /\ tx.on /\ tx.pc = "next"
    /\ LET After(nx) ==
               IF nx.err = EOF
               THEN [tx EXCEPT !.pc = "done", !.trErr = nx.trErr]
               ELSE IF nx.err # Nil
               THEN IF tx.ContinueOnError /\ ~tx.cancelled
                    THEN [tx EXCEPT !.pc = "top", !.trErr = nx.trErr]
                    ELSE [tx EXCEPT !.pc = "done", !.trErr = nx.trErr, !.err = nx.err]
               ELSE [tx EXCEPT !.pc = "top", !.pos = nx.pos,
                               !.handled = Append(@, nx.hdr)]
       IN  tx' = After(TrNext(tx.entries, tx.pos, tx.trErr))
    /\ TarFrame

NextTarExtract == CancelExtract \/ CheckContext \/ AdvanceEntry

SpecTarExtract == InitTarExtract /\ [][NextTarExtract]_vars

\* the loop of Extract goes on as long as it can
SpecTarExtractRuns ==
    SpecTarExtract /\ WF_vars(CheckContext) /\ WF_vars(AdvanceEntry)

\* Claims about the end of Tar.Extract.

\* C34: Tar.Extract comes to its end on every finite archive: each iteration
\* of its loop takes an entry or ends the call, also with ContinueOnError
\* set, a tr.Next() that keeps failing with the same error, and a context
\* that is never cancelled.
TarExtractTerminates == <>(tx.pc = "done")

\* C34, the part that holds: without ContinueOnError the call comes to its
\* end.
TarExtractTerminatesOnError == (~tx.ContinueOnError) => <>(tx.pc = "done")

----------------------------------------------------------------------------
\* CompressedArchive.Archive with the compressing writer it opens.  arc holds:
\*   Compression, Archival   the fields of the CompressedArchive
\*   files       how many files are archived
\*   archiveErr  what Archival.Archive returns; closeErr, what wc.Close()
\*               returns when it flushes the tail of the compressed stream
\*   pc          "call", "opened" (past OpenWriter), "archived" (Archival's
\*               Archive has returned), "done"
\*   wc          the compressing writer: "none", "open", "closed" (Close was
\*               called on it)
\*   written     the entries written, and tail, whether the end of the
\*               output is written
\*   err         the error Archive returned

\* most files of a call
MaxArchived == 2

\* the deferred wc.Close() in Archive: its error goes nowhere, the call
\* returns what Archival.Archive returned
ArchiveReturns(archiveErr, closeErr) == archiveErr

InitArchive ==
    /\ \E comp \in {NoFormat} \cup {f \in formats : IsCompression(f)},
          arv \in {"tar", "zip"}, n \in 0..MaxArchived,
          ae \in {Nil, ErrIO}, ce \in {Nil, ErrIO} :
         /\ comp = NoFormat => ce = Nil
         /\ arc = [on |-> TRUE, Compression |-> comp, Archival |-> arv, files |-> n,
                   archiveErr |-> ae, closeErr |-> ce, pc |-> "call", wc |-> "none",
                   written |-> 0, tail |-> FALSE, err |-> Nil]
    /\ rr = newRewindReader(Stream(<<>>, 0, "no", EOF))
    /\ hist = NoHist /\ id = NoId /\ afs = NoArchiveFS /\ ca = NoCompressedArchive
    /\ wk = Idle /\ sl = Idle /\ reg = Idle /\ fsy = Idle /\ par = Idle /\ df = Idle
    /\ opn = Idle /\ zx = Idle /\ tx = Idle /\ ins = Idle

ArchiveFrame ==
    UNCHANGED <<rr, hist, id, afs, ca, wk, sl, reg, fsy, par, df, opn, zx, tx, ins>>

\* wc, err := caf.Compression.OpenWriter(output); defer wc.Close(); output = wc
OpenCompressor ==
    /\ arc.on /\ arc.pc = "call"
    /\ arc' = IF arc.Compression # NoFormat /\ OpenWriter(arc.Compression).err = Nil
              THEN [arc EXCEPT !.pc = "opened", !.wc = "open"]
              ELSE [arc EXCEPT !.pc = "opened"]
    /\ ArchiveFrame

\* caf.Archival.Archive(ctx, output, files): the files are written to output,
\* all of them or, when it fails, all but the last
WriteFiles ==
    /\ arc.on /\ arc.pc = "opened"
    /\ arc' = IF arc.archiveErr = Nil
              THEN [arc EXCEPT !.pc = "archived", !.written = arc.files,
                               !.tail = (arc.wc = "none")]
              ELSE [arc EXCEPT !.pc = "archived",
                               !.written = IF arc.files > 0 THEN arc.files - 1 ELSE 0]
    /\ ArchiveFrame

\* the return of Archive: the deferred wc.Close() runs, and flushes the tail
\* of the compressed stream unless it fails
CloseAndReturn ==
    /\ arc.on /\ arc.pc = "archived"
    /\ arc' = [arc EXCEPT !.pc = "done",
                          !.wc = IF @ = "open" THEN "closed" ELSE @,
                          !.tail = IF arc.wc = "open"
                                   THEN arc.archiveErr = Nil /\ arc.closeErr = Nil
                                   ELSE @,
                          !.err = ArchiveReturns(arc.archiveErr, arc.closeErr)]
    /\ ArchiveFrame

NextArchive == OpenCompressor \/ WriteFiles \/ CloseAndReturn

SpecArchive == InitArchive /\ [][NextArchive]_vars

\* Claims about CompressedArchive.Archive.

\* C35: when closing the compressing writer fails, Archive returns a
\* failure; it never returns nil for an archive whose compressed output is
\* not written to its end.
FailedCloseFailsArchive ==
    (arc.on /\ arc.pc = "done") =>
        /\ (arc.wc = "closed" /\ arc.closeErr # Nil) => arc.err # Nil
        /\ arc.err = Nil => (arc.written = arc.files /\ arc.tail)

\* C35, the part that holds: a failure of the archival layer is returned,
\* and the writer that was opened is closed when Archive returns.
ArchivalFailureReturned ==
    (arc.on /\ arc.pc = "done") =>
        /\ arc.archiveErr # Nil => arc.err = arc.archiveErr
        /\ arc.wc # "open"

----------------------------------------------------------------------------
\* Tar.Insert up to the offset it writes at.  ins holds:
\*   sizes     the archive: the size of the data of each entry; an entry is
\*             a header block and its data, padded to whole blocks
\*   read      the entries tr.Next() has returned
\*   pos       the offset of the stream
\*   lastStreamPos, lastFileSize    the locals of that name
\*   pc        "scan", "seek" (the loop is left), "write" (past the Seek)
\*   newOffset      the offset the new entries are written at

\* most entries of the archive that is appended to
MaxInsertEntries == 2

\* the sizes of the data of an entry
EntrySizes == {0, 1, TarBlockSize - 1, TarBlockSize, TarBlockSize + 1, 2 * TarBlockSize}

\* the blocks that hold size bytes of data
PaddedSize(size) == ((size + TarBlockSize - 1) \div TarBlockSize) * TarBlockSize

\* the offset after the header block of entry k: where the stream is when
\* tr.Next() has returned that entry
RECURSIVE OffsetAfterHeader(_, _)
OffsetAfterHeader(sizes, k) ==
    IF k = 0 THEN 0
    ELSE (IF k = 1 THEN 0
          ELSE OffsetAfterHeader(sizes, k - 1) + PaddedSize(sizes[k - 1]))
         + TarBlockSize

\* newOffset := lastStreamPos + lastFileSize
\* newOffset += blockSize - (newOffset % blockSize)
InsertOffset(lastStreamPos, lastFileSize) ==
    LET end == lastStreamPos + lastFileSize
    IN  end + (TarBlockSize - (end % TarBlockSize))

InsertArchives == UNION {[1..n -> EntrySizes] : n \in 0..MaxInsertEntries}

InitInsert ==
    /\ \E sizes \in InsertArchives :
         ins = [on |-> TRUE, sizes |-> sizes, read |-> 0, pos |-> 0,
                lastStreamPos |-> 0, lastFileSize |-> 0, pc |-> "scan", newOffset |-> 0]
    /\ rr = newRewindReader(Stream(<<>>, 0, "no", EOF))
    /\ hist = NoHist /\ id = NoId /\ afs = NoArchiveFS /\ ca = NoCompressedArchive
    /\ wk = Idle /\ sl = Idle /\ reg = Idle /\ fsy = Idle /\ par = Idle /\ df = Idle
    /\ opn = Idle /\ zx = Idle /\ tx = Idle /\ arc = Idle

InsertFrame ==
    UNCHANGED <<rr, hist, id, afs, ca, wk, sl, reg, fsy, par, df, opn, zx, tx, arc>>

\* one iteration of the scan: tr.Next(), into.Seek(0, io.SeekCurrent) and
\* lastFileSize = hdr.Size; at io.EOF the loop is left
ScanEntry ==
    /\ ins.on /\ ins.pc = "scan"
    /\ ins' = IF ins.read >= Len(ins.sizes)
              THEN [ins EXCEPT !.pc = "seek"]
              ELSE [ins EXCEPT !.read = @ + 1,
                               !.pos = OffsetAfterHeader(ins.sizes, ins.read + 1),
                               !.lastStreamPos = OffsetAfterHeader(ins.sizes, ins.read + 1),
                               !.lastFileSize = ins.sizes[ins.read + 1]]
    /\ InsertFrame

\* the offset is computed and into.Seek(newOffset, io.SeekStart) goes there
SeekInsert ==
    /\ ins.on /\ ins.pc = "seek"
    /\ \E off \in {InsertOffset(ins.lastStreamPos, ins.lastFileSize)} :
          ins' = [ins EXCEPT !.pc = "write", !.newOffset = off, !.pos = off]
    /\ InsertFrame

NextInsert == ScanEntry \/ SeekInsert

SpecInsert == InitInsert /\ [][NextInsert]_vars

\* Claims about the offset of Tar.Insert.

\* the length of the entries: for each its header block and its data blocks
RECURSIVE EntriesLength(_)
EntriesLength(sizes) ==
    IF sizes = <<>> THEN 0
    ELSE EntriesLength(Tail(sizes)) + TarBlockSize + PaddedSize(Head(sizes))

\* the end of the data of the last entry, 0 for an archive of no entries
DataEnd(sizes) ==
    IF sizes = <<>> THEN 0
    ELSE EntriesLength(SubSeq(sizes, 1, Len(sizes) - 1)) + TarBlockSize + sizes[Len(sizes)]

\* the first block boundary at or after offset
BoundaryAtOrAfter(offset) ==
    CHOOSE b \in offset..(offset + TarBlockSize - 1) : b % TarBlockSize = 0

\* C36: Tar.Insert starts to write at the first 512-byte block boundary at
\* or after the end of the data of the last entry (at 0 for an archive of
\* no entries), so that no all-zero block stays between the old entries and
\* the new ones, also when the data of the last entry ends on a boundary.
InsertWritesAtBoundary ==
    (ins.on /\ ins.pc = "write") =>
        ins.newOffset = BoundaryAtOrAfter(DataEnd(ins.sizes))

\* C36, the part that holds: when the data of the last entry does not end
\* on a block boundary, Insert writes at the next boundary.
InsertWritesAfterPartialBlock ==
    (ins.on /\ ins.pc = "write" /\ DataEnd(ins.sizes) % TarBlockSize # 0) =>
        ins.newOffset = BoundaryAtOrAfter(DataEnd(ins.sizes))

----------------------------------------------------------------------------
\* Claims about the accumulation buffer of the rewindReader.

\* C39: until reader() is called, buf holds exactly the bytes consumed from
\* the underlying stream since it was handed over, in order and each once:
\* bytes served again from buf after a rewind are not written to it again,
\* bytes that a Read of the stream returns together with an error are, and
\* the bytes.Reader made by rewind() covers the whole of what buf held.
BufEqualsConsumed ==
    (id.pc = "off" /\ ~hist.final) =>
        /\ rr.buf = Slice(rr.src.data, rr.src.start, rr.src.pos)
        /\ rr.bufReader.set =>
             /\ rr.bufReader.len <= Len(rr.buf)
             /\ rr.bufReader.i <= rr.bufReader.len

\* C39 witness: after a rewind, one Read of three bytes over a stream that
\* delivers one byte per call and its error with its last byte: two bytes
\* come from buf, the third from the stream with the I/O error, and buf holds
\* the three bytes of the stream.
ErrorByteRecordedAfterRewind ==
    /\ id.pc = "off" /\ ~hist.final
    /\ hist.cycles >= 1 /\ hist.reads = 1
    /\ hist.c = 1 /\ hist.n = 3 /\ hist.err = ErrIO
    /\ rr.src.eager /\ rr.src.start = 0
    /\ rr.buf = <<1, 2, 3>>

----------------------------------------------------------------------------
\* Claims about the probes of Identify and the rewindable stream.

\* the stream as it was handed to Identify, nothing of it read yet
Pristine(src) == [src EXCEPT !.pos = src.start, !.ioErr = FALSE]

\* the rewindReader is rewound: its bufReader stands at the start of all of buf
Rewound(r) == r.bufReader = [set |-> TRUE, i |-> 0, len |-> Len(r.buf)]

\* C37: every probe of Identify, in either loop and whatever its outcome,
\* reads the stream from the first byte it had at the call: its MatchResult
\* and its error are those of the same identifyOne call, with the same
\* compression opened anew, on a rewindReader over the stream as it was
\* handed over; and every probe leaves the stream rewound, buf holding all
\* that was consumed.
ProbeStartsAtFirstByte ==
    [][ (id.pc \in {"pass1", "pass2"} /\ id' # id) =>
          LET SameAs(fresh) ==
                  /\ id'.last.mr = fresh.mr
                  /\ id'.last.err = fresh.err
          IN  /\ SameAs(identifyOne(id'.last.format, id.filename,
                                    newRewindReader(Pristine(rr.src)),
                                    id'.last.comp))
              /\ id'.last.comp = id.compression
              /\ Rewound(rr')
              /\ id'.pc # "done" =>
                    rr'.buf = Slice(rr'.src.data, rr'.src.start, rr'.src.pos)
      ]_vars

\* C37 witness: in the second loop, a probe through the selected compression
\* came after an earlier probe of that loop, with bytes of the stream already
\* in buf, and did not match.
LaterProbeThroughDecompressor ==
    /\ id.pc = "pass2" /\ id.compression # NoFormat
    /\ id.probed # {} /\ Cardinality(id.probed) >= 2
    /\ id.last.comp = id.compression /\ id.last.format \in id.probed
    /\ Len(rr.buf) >= 2

\* the rewindReader as it stood when reader() was called on it, told from
\* what is left of it: all that was consumed of the stream is in buf
BeforeReader(r) == [r EXCEPT !.src.pos = r.src.start + Len(r.buf)]

\* C38: reader() is called once in an Identify call, by the step that
\* returns, and it is the last thing done to the rewindable stream: until
\* that step the stream stands where the probes have read it to and nothing
\* is returned; the step that returns leaves the stream as reader() leaves
\* the rewound rewindReader, with nothing read through it since the last
\* rewind(), and returns what reader() yields; after it nothing changes, on
\* the return of a probe error as on the return after both loops.
FinalizedOnceAtReturn ==
    [][ /\ (id.pc \in {"pass1", "pass2", "resolve"} /\ id'.pc # "done") =>
              /\ id'.out = <<>>
              /\ rr'.src.pos = rr'.src.start + Len(rr'.buf)
        /\ (id.pc \in {"pass1", "pass2", "resolve"} /\ id'.pc = "done") =>
              /\ Rewound(rr')
              /\ rr'.src = readerSrc(BeforeReader(rr'))
              /\ id'.out = reader(BeforeReader(rr'))
        /\ id.pc = "done" => (rr' = rr /\ id' = id)
      ]_vars

\* C38 witness: Identify has returned on a probe error over a seekable
\* stream: two bytes were read before the error, and reader() has put the
\* stream back at its start.
FinalizedOnProbeError ==
    /\ id.pc = "done" /\ id.err.msg = "matching"
    /\ rr.src.seek = "yes" /\ Len(rr.buf) >= 2 /\ rr.src.pos = 0
    /\ id.out = rr.src.data

====
